---- MODULE Spec2Model ----
(***************************************************************************)
(* thsensai: IOC normalisation (ioc.py, class IOC), the IOCs collection    *)
(* and its merge pass (ioc.py, class IOCs), and the chunked extraction     *)
(* pipelines (IOCs.generate / IOCs.from_intel, hunter.extract_iocs).      *)
(*                                                                         *)
(* Python strings are sequences of one-character strings, so that          *)
(* str.replace, str.strip, str.lower, str.join and the comparison of       *)
(* strings by code point are computed and not assumed.                     *)
(***************************************************************************)
EXTENDS Integers, Sequences, FiniteSets, TLC

VARIABLES
    raw,      \* normalisation: the string handed to IOC(value=...)
    once,     \* normalisation: the value the constructed IOC stores
    twice,    \* normalisation: the value of an IOC rebuilt from that value
    npc,      \* normalisation: "new" | "built" | "rebuilt"
    iocs,     \* IOCs.iocs of the object under observation
    pre,      \* self.iocs as deduplicate_and_combine_context last found it
    last,     \* the last operation on the object
    nops,     \* number of operations performed on the object
    premerged, \* whether iocs was a merge result before the last operation
    ret,      \* what the last call of IOCs.extend returned
    raised,   \* the exception that escaped the last operation, or "none"
    which,    \* pipeline: "from_intel" | "generate" | "extract_iocs"
    llmKind,      \* pipeline: the kind of llm handed in
    outcomes, \* pipeline: what the backend does on each chunk, in document order
    progress, \* pipeline: whether a Progress object was handed in
    ppc,      \* pipeline: "ready" | "loop" | "done" | "aborted"
    ndone,        \* pipeline: number of chunks whose loop body has completed
    total,    \* pipeline: total announced by progress.add_task, -1 if none
    advances, \* pipeline: number of progress.advance calls
    calls,    \* pipeline: number of backend invocations
    merges,   \* pipeline: number of merge passes of the run
    start,    \* pipeline: the list the object held when the run began
    run,      \* pipeline: 1 for the first run on the input, 2 for a second run
              \* of the same pipeline, 3 for a run of the other pipeline
    firstResult,    \* pipeline: the list the first run returned
    order,    \* pipeline: the chunks the extractor was called on, in call order
    params,   \* pipeline: the keys of the params dict handed to extract_iocs
    text,     \* CSV: the string IOCs.as_csv returned
    back,     \* CSV: IOCs.iocs of the empty object that text was read into
    cpc,      \* CSV: "new" | "written" | "read"
    srcKind,  \* analyze: "url" | "file", what acquire_intel takes the source for
    loaded,   \* analyze: what loading the source does: a fault, or the pages read
    opts,     \* analyze: the write_intel / write_iocs / write_hypotheses flags
    apc,      \* analyze: "start" | "exit1" | "crashed"
    acquired, \* analyze: what acquire_intel returned or raised
    effects,  \* analyze: the steps performed after acquisition, in order
    meta,     \* hunt: the HuntMeta object (hunt.meta)
    hyps,     \* hunt: Hypotheses.hypotheses (of hunt.hypotheses)
    hiocs,    \* hunt: hunt.iocs, "None" or "IOCs"
    script,   \* hunt: what llm.invoke_model does on each successive call
    hcalls,   \* hunt: the extractor calls made so far, in order
    hops,     \* hunt: the operations performed so far, in order
    held,     \* hunt: meta and hyps as they were at the start
    atEntry,  \* hunt: meta and hyps as the last operation found them
    rargs,    \* report: the arguments handed to generate_report_name
    rresult,  \* report: the name it returned, or the exception it raised
    rpc       \* report: "ready" | "called"

normVars == <<raw, once, twice, npc>>
objVars == <<iocs, pre, last, nops, premerged, ret, raised>>
pipeVars ==
    <<which, llmKind, outcomes, progress, ppc, ndone, total, advances, calls, merges,
      start, run, firstResult, order, params>>
csvVars == <<text, back, cpc>>
analyzeVars == <<srcKind, loaded, opts, apc, acquired, effects>>
huntVars == <<meta, hyps, hiocs, script, hcalls, hops, held, atEntry>>
reportVars == <<rargs, rresult, rpc>>
appVars == <<analyzeVars, huntVars, reportVars>>
vars ==
    <<raw, once, twice, npc, iocs, pre, last, nops, premerged, ret, raised,
      which, llmKind, outcomes, progress, ppc, ndone, total, advances, calls, merges,
      start, run, firstResult, order, params, text, back, cpc,
      srcKind, loaded, opts, apc, acquired, effects,
      meta, hyps, hiocs, script, hcalls, hops, held, atEntry,
      rargs, rresult, rpc>>

(***************************************************************************)
(* Bounds.                                                                 *)
(***************************************************************************)
MaxTokens == 3
MaxLen == 3
MaxOps == 3
MaxChunks == 3

(***************************************************************************)
(* Python str primitives.                                                  *)
(***************************************************************************)
\* Characters of the model's alphabet in code-point order (ord()).
CodeOrder ==
    << "\t", "\n", "\r", " ", "\"", ",", ".", "/",
       "0", "1", "2", "3", "4", "5", "6", "7", "8", "9", ":",
       "A", "B", "C", "D", "E", "F", "G", "H", "I", "J", "K", "L", "M",
       "N", "O", "P", "Q", "R", "S", "T", "U", "V", "W", "X", "Y", "Z",
       "[", "]", "_",
       "a", "b", "c", "d", "e", "f", "g", "h", "i", "j", "k", "l", "m",
       "n", "o", "p", "q", "r", "s", "t", "u", "v", "w", "x", "y", "z",
       "|" >>

Ord(c) == CHOOSE i \in 1..Len(CodeOrder) : CodeOrder[i] = c

\* str.__lt__: lexicographic by code point, a proper prefix is smaller.
RECURSIVE StrLess(_, _)
StrLess(s, t) ==
    IF t = <<>> THEN FALSE
    ELSE IF s = <<>> THEN TRUE
    ELSE IF Head(s) = Head(t) THEN StrLess(Tail(s), Tail(t))
    ELSE Ord(Head(s)) < Ord(Head(t))

Whitespace == {" ", "\t", "\n", "\r"}

RECURSIVE LStrip(_)
LStrip(s) ==
    IF s # <<>> /\ Head(s) \in Whitespace THEN LStrip(Tail(s)) ELSE s

RECURSIVE RStrip(_)
RStrip(s) ==
    IF s # <<>> /\ s[Len(s)] \in Whitespace
    THEN RStrip(SubSeq(s, 1, Len(s) - 1))
    ELSE s

\* str.strip()
Strip(s) == RStrip(LStrip(s))

UpperCase ==
    << "A", "B", "C", "D", "E", "F", "G", "H", "I", "J", "K", "L", "M",
       "N", "O", "P", "Q", "R", "S", "T", "U", "V", "W", "X", "Y", "Z" >>
LowerCase ==
    << "a", "b", "c", "d", "e", "f", "g", "h", "i", "j", "k", "l", "m",
       "n", "o", "p", "q", "r", "s", "t", "u", "v", "w", "x", "y", "z" >>

LowerChar(c) ==
    IF \E i \in 1..Len(UpperCase) : UpperCase[i] = c
    THEN LowerCase[CHOOSE i \in 1..Len(UpperCase) : UpperCase[i] = c]
    ELSE c

\* str.lower()
Lower(s) == [i \in 1..Len(s) |-> LowerChar(s[i])]

\* str.replace(old, new) for a non-empty old: leftmost, non-overlapping.
RECURSIVE Replace(_, _, _)
Replace(s, old, new) ==
    IF Len(s) < Len(old) THEN s
    ELSE IF SubSeq(s, 1, Len(old)) = old
         THEN new \o Replace(SubSeq(s, Len(old) + 1, Len(s)), old, new)
         ELSE <<Head(s)>> \o Replace(Tail(s), old, new)

\* s.startswith(prefix)
StartsWith(s, prefix) ==
    Len(s) >= Len(prefix) /\ SubSeq(s, 1, Len(prefix)) = prefix

\* old in s
RECURSIVE Contains(_, _)
Contains(s, old) ==
    IF Len(s) < Len(old) THEN FALSE
    ELSE SubSeq(s, 1, Len(old)) = old \/ Contains(Tail(s), old)

\* sep.join(parts)
RECURSIVE Join(_, _)
Join(sep, parts) ==
    IF parts = <<>> THEN <<>>
    ELSE IF Len(parts) = 1 THEN parts[1]
    ELSE parts[1] \o sep \o Join(sep, Tail(parts))

(***************************************************************************)
(* class IOC: the field validators.                                        *)
(***************************************************************************)
DotBr == <<"[", ".", "]">>
ColonBr == <<"[", ":", "]">>
Hxxp == <<"h", "x", "x", "p", ":", "/", "/">>
Hxxps == <<"h", "x", "x", "p", "s", ":", "/", "/">>
HXXp == <<"h", "X", "X", "p", ":", "/", "/">>
HXXps == <<"h", "X", "X", "p", "s", ":", "/", "/">>
Http == <<"h", "t", "t", "p", ":", "/", "/">>
Https == <<"h", "t", "t", "p", "s", ":", "/", "/">>

\* The six defang patterns normalize_value rewrites.
DefangPatterns == {DotBr, ColonBr, Hxxp, Hxxps, HXXp, HXXps}

\* normalize_value with the short scheme patterns written without "://".
normalize_value_short_scheme(v) ==
    LET v1 == Replace(v, DotBr, <<".">>)
        v2 == Replace(v1, ColonBr, <<":">>)
        v3 == Replace(v2, <<"h", "x", "x", "p">>, <<"h", "t", "t", "p">>)
        v4 == Replace(v3, Hxxps, Https)
        v5 == Replace(v4, <<"h", "X", "X", "p">>, <<"h", "t", "t", "p">>)
        v6 == Replace(v5, HXXps, Https)
    IN  v6

\* IOC.normalize_value: six str.replace calls, in this order.
normalize_value(v) ==
    LET v1 == Replace(v, DotBr, <<".">>)
        v2 == Replace(v1, ColonBr, <<":">>)
        v3 == Replace(v2, Hxxp, Http)
        v4 == Replace(v3, Hxxps, Https)
        v5 == Replace(v4, HXXp, Http)
        v6 == Replace(v5, HXXps, Https)
    IN  v6

\* IOC.normalize_type
normalize_type(v) == Lower(Strip(Replace(v, <<"_">>, <<" ">>)))

\* IOC.normalize_context
normalize_context(v) == Strip(v)

\* IOC(type=t, value=v, context=c)
IOC(t, v, c) ==
    [type |-> normalize_type(t), value |-> normalize_value(v),
     context |-> normalize_context(c)]

(***************************************************************************)
(* Inputs of the normalisation runs: strings built from at most MaxTokens  *)
(* tokens, the defang patterns and their fragments among them.             *)
(***************************************************************************)
Tokens ==
    { <<"[">>, <<"]">>, <<".">>, <<":">>, DotBr, ColonBr,
      <<"h", "x", "x", "p">>, <<"h", "X", "X", "p">>, <<"s">>,
      <<":", "/", "/">>, Hxxp, Hxxps, <<"1">> }

RECURSIVE Concat(_)
Concat(ss) == IF ss = <<>> THEN <<>> ELSE Head(ss) \o Concat(Tail(ss))

SeqsUpTo(S, n) == UNION {[1..k -> S] : k \in 0..n}

RawValueInputs == {Concat(ts) : ts \in SeqsUpTo(Tokens, MaxTokens)}

ObjIdle ==
    /\ iocs = <<>> /\ pre = <<>> /\ last = "idle" /\ nops = 0
    /\ premerged = FALSE /\ ret = 0 /\ raised = "none"

NormIdle == raw = <<>> /\ once = <<>> /\ twice = <<>> /\ npc = "idle"

PipeIdle ==
    /\ which = "none" /\ llmKind = "none" /\ outcomes = <<>> /\ progress = FALSE
    /\ ppc = "idle" /\ ndone = 0 /\ total = -1 /\ advances = 0 /\ calls = 0
    /\ merges = 0 /\ start = <<>> /\ run = 0 /\ firstResult = <<>>
    /\ order = <<>> /\ params = {}

CsvIdle == text = <<>> /\ back = <<>> /\ cpc = "idle"
AnalyzeIdle ==
    /\ srcKind = "idle" /\ loaded = <<>> /\ opts = {} /\ apc = "idle"
    /\ acquired = <<>> /\ effects = <<>>
HuntIdle ==
    /\ meta = <<>> /\ hyps = <<>> /\ hiocs = "idle" /\ script = <<>>
    /\ hcalls = <<>> /\ hops = <<>> /\ held = <<>> /\ atEntry = <<>>
ReportIdle == rargs = <<>> /\ rresult = <<>> /\ rpc = "idle"
AppIdle == AnalyzeIdle /\ HuntIdle /\ ReportIdle

InitNorm ==
    /\ raw \in RawValueInputs
    /\ once = <<>>
    /\ twice = <<>>
    /\ npc = "new"
    /\ ObjIdle
    /\ AppIdle
    /\ PipeIdle
    /\ CsvIdle

\* IOC(value=raw): the validator runs on construction.
Build ==
    /\ npc = "new"
    /\ once' = normalize_value(raw)
    /\ npc' = "built"
    /\ UNCHANGED <<raw, twice>>
    /\ UNCHANGED objVars
    /\ UNCHANGED pipeVars
    /\ UNCHANGED csvVars
    /\ UNCHANGED appVars

\* IOC(value=ioc.value): an IOC rebuilt from a stored value (a CSV re-import).
Rebuild ==
    /\ npc = "built"
    /\ twice' = normalize_value(once)
    /\ npc' = "rebuilt"
    /\ UNCHANGED <<raw, once>>
    /\ UNCHANGED objVars
    /\ UNCHANGED pipeVars
    /\ UNCHANGED csvVars
    /\ UNCHANGED appVars

NextNorm == Build \/ Rebuild

SpecNorm == InitNorm /\ [][NextNorm]_vars

(***************************************************************************)
(* class IOCs: deduplicate_and_combine_context.                            *)
(***************************************************************************)
\* The key with both the type and the value of the IOC.
GroupKeyTypeValue(ioc) == <<ioc.type, ioc.value>>

\* The key of value_to_iocs an IOC is filed under.
GroupKey(ioc) == ioc.value

\* list(value_to_iocs.keys()): the keys in the order they were first seen.
RECURSIVE FirstSeenKeys(_)
FirstSeenKeys(l) ==
    IF l = <<>> THEN <<>>
    ELSE LET front == FirstSeenKeys(SubSeq(l, 1, Len(l) - 1))
             k == GroupKey(l[Len(l)])
         IN  IF \E i \in 1..Len(front) : front[i] = k
             THEN front
             ELSE Append(front, k)

\* Only the first run of consecutive IOCs filed under k.
GroupOfAdjacent(l, k) ==
    LET first == CHOOSE i \in 1..Len(l) :
                    /\ GroupKey(l[i]) = k
                    /\ \A j \in 1..(i - 1) : GroupKey(l[j]) # k
        end == CHOOSE j \in first..Len(l) :
                    /\ \A m \in first..j : GroupKey(l[m]) = k
                    /\ (j = Len(l) \/ GroupKey(l[j + 1]) # k)
    IN  SubSeq(l, first, end)

\* value_to_iocs[k]: the IOCs filed under k, in list order.
GroupOf(l, k) == SelectSeq(l, LAMBDA ioc : GroupKey(ioc) = k)

\* The join over every context, the empty ones included.
CombinedContextKeepEmpty(group) ==
    Join(<<" ", "|", " ">>, [i \in 1..Len(group) |-> Strip(group[i].context)])

\* " | ".join(ioc.context.strip() for ioc in iocs_group if ioc.context.strip())
CombinedContext(group) ==
    Join(<<" ", "|", " ">>,
         SelectSeq([i \in 1..Len(group) |-> Strip(group[i].context)],
                   LAMBDA c : c # <<>>))

\* The copy taken of the last member of the group.
CombinedIOCFromLast(group) ==
    IF Len(group) > 1
    THEN [group[Len(group)] EXCEPT !.context = CombinedContext(group)]
    ELSE group[1]

\* What one group contributes to deduplicated_iocs: the IOC itself, or
\* iocs_group[0].model_copy(update={"context": combined_context}).
CombinedIOC(group) ==
    IF Len(group) > 1
    THEN [group[1] EXCEPT !.context = CombinedContext(group)]
    ELSE group[1]

\* The insertion that puts x before the elements of equal type.
InsertBeforeEqual(sorted, x) ==
    LET before == {i \in 1..Len(sorted) : StrLess(sorted[i].type, x.type)}
        n == Cardinality(before)
    IN  SubSeq(sorted, 1, n) \o <<x>> \o SubSeq(sorted, n + 1, Len(sorted))

\* One step of a stable sort on ioc.type: x goes after every element whose
\* type is not greater than its own.
InsertByType(sorted, x) ==
    LET notAfter == {i \in 1..Len(sorted) : ~StrLess(x.type, sorted[i].type)}
        n == Cardinality(notAfter)
    IN  SubSeq(sorted, 1, n) \o <<x>> \o SubSeq(sorted, n + 1, Len(sorted))

\* sorted(l, key=lambda ioc: ioc.type): stable.
RECURSIVE SortedByType(_)
SortedByType(l) ==
    IF l = <<>> THEN <<>>
    ELSE InsertByType(SortedByType(SubSeq(l, 1, Len(l) - 1)), l[Len(l)])

\* The list deduplicate_and_combine_context assigns to self.iocs.
deduplicate_and_combine_context(l) ==
    LET keys == FirstSeenKeys(l)
        deduplicated_iocs == [n \in 1..Len(keys) |-> CombinedIOC(GroupOf(l, keys[n]))]
    IN  SortedByType(deduplicated_iocs)

(***************************************************************************)
(* The merge pass on its own: an IOCs object constructed from any list of  *)
(* at most MaxLen constructed IOCs, then merged, and merged again.         *)
(***************************************************************************)
RawTypes == { <<"I", "P">>, <<"_", "U", "r", "l", " ">> }
RawValues == { <<"1", "[", ".", "]", "1">>, <<"2", "[", ":", "]", "2">> }
RawContexts == { <<>>, <<" ", "A">>, <<"B", "\n">> }

\* The IOCs the lists under test are drawn from: two values under both types
\* and all three contexts, and a third value under one type.
IOCUniverse ==
    {IOC(t, v, c) : t \in RawTypes, v \in RawValues, c \in RawContexts}
        \cup {IOC(<<"i", "p">>, <<"e">>, c) : c \in {<<>>, <<" ", "A">>}}

InitMerge ==
    /\ iocs \in SeqsUpTo(IOCUniverse, MaxLen)
    /\ pre = <<>>
    /\ last = "new"
    /\ nops = 0
    /\ premerged = FALSE
    /\ ret = 0
    /\ raised = "none"
    /\ NormIdle
    /\ AppIdle
    /\ PipeIdle
    /\ CsvIdle

\* Whether self.iocs is a list a merge pass assigned.
IsMerged == last \in {"dedup", "extend", "extend_from_csv"} \/ (last # "new" /\ premerged)

\* IOCs.deduplicate_and_combine_context()
Dedup ==
    /\ nops < MaxOps
    /\ pre' = iocs
    /\ iocs' = deduplicate_and_combine_context(iocs)
    /\ premerged' = IsMerged
    /\ last' = "dedup"
    /\ nops' = nops + 1
    /\ raised' = "none"
    /\ UNCHANGED ret
    /\ UNCHANGED normVars
    /\ UNCHANGED pipeVars
    /\ UNCHANGED csvVars
    /\ UNCHANGED appVars

NextMerge == Dedup

SpecMerge == InitMerge /\ [][NextMerge]_vars

(***************************************************************************)
(* LLMInference.invoke_model and IOCs.extend.                              *)
(*                                                                         *)
(* A backend outcome is what model_with_structure.invoke does: it returns  *)
(* a validated IOCs object (kind "iocs"), returns None (kind "none"),      *)
(* raises pydantic's ValidationError (kind "validation_error") or raises   *)
(* anything else (kind "backend_fault").                                   *)
(***************************************************************************)
NoneOutcome == [kind |-> "none", iocs |-> <<>>]
ValidationErrorOutcome == [kind |-> "validation_error", iocs |-> <<>>]
BackendFaultOutcome == [kind |-> "backend_fault", iocs |-> <<>>]
IocsOutcome(l) == [kind |-> "iocs", iocs |-> l]

\* invoke_model without its try: the ValidationError is raised on.
invoke_model_no_except(b) == b

\* invoke_model with a bare except: every exception becomes None.
invoke_model_except_all(b) ==
    IF b.kind \in {"validation_error", "backend_fault"} THEN NoneOutcome ELSE b

\* LLMInference.invoke_model: a ValidationError becomes None, anything else
\* is returned or raised as the backend did.
invoke_model(b) == IF b.kind = "validation_error" THEN NoneOutcome ELSE b

\* An extractor that invokes the backend again after a ValidationError.
BackendCallsWithRetry(b) == IF b.kind = "validation_error" THEN 2 ELSE 1

\* The calls of model_with_structure.invoke one extractor invocation makes,
\* given the outcome b of the call: the one call in the try, none in except.
BackendCalls(b) == 1

\* llm.invoke_model(...) as IOCs.extend sees it: an LLMInference, or a stand-in
\* for it (a stub or mock) that hands on the outcome as it is.
LlmInvoke(llm, b) == IF llm = "LLMInference" THEN invoke_model(b) ELSE b

\* The new IOCs put in front of the list.
ExtendListInFront(cur, new) == new \o cur

\* list.extend: self.iocs.extend(new)
ExtendList(cur, new) == cur \o new

\* IOCs.extend emptying the list when the extractor raises.
ExtendIocsRolledBack(cur, o) ==
    IF o.kind = "iocs" THEN deduplicate_and_combine_context(cur \o o.iocs)
    ELSE IF o.kind = "backend_fault" THEN <<>> ELSE cur

\* IOCs.extend without its merge pass.
ExtendIocsUnmerged(cur, o) == IF o.kind = "iocs" THEN ExtendList(cur, o.iocs) ELSE cur

\* IOCs.extend: self.iocs when the call ends (returning or raising).
ExtendIocs(cur, o) ==
    IF o.kind = "iocs"
    THEN deduplicate_and_combine_context(ExtendList(cur, o.iocs))
    ELSE cur

\* IOCs.extend: the value returned (0 also stands for "raised").
ExtendReturn(o) == IF o.kind = "iocs" THEN Len(o.iocs) ELSE 0

\* IOCs.extend without its except clause: the ValidationError escapes too.
ExtendRaisesValidationError(o) ==
    IF o.kind = "backend_fault" THEN "BackendFault"
    ELSE IF o.kind = "validation_error" THEN "ValidationError" ELSE "none"

\* IOCs.extend: the exception that escapes, or "none".
ExtendRaises(o) == IF o.kind = "backend_fault" THEN "BackendFault" ELSE "none"

(***************************************************************************)
(* IOCs.extend_from_csv, on the rows csv.DictReader yields.  A field a     *)
(* short row does not have is None.                                        *)
(***************************************************************************)
NoneValue == <<"None">>

\* A keyword argument that is not passed at all.
MissingValue == <<"Missing">>

\* IOC(**lower_case_row): "ok", or the exception raised.  normalize_type calls
\* v.replace on its argument; a None value or context fails validation.
RowStatus(row) ==
    IF row.type = NoneValue THEN "AttributeError"
    ELSE IF \/ row.type = MissingValue
            \/ row.value \in {NoneValue, MissingValue}
            \/ row.context = NoneValue
         THEN "ValidationError"
    ELSE "ok"

\* The loop over the reader: the IOCs appended to the local list iocs before
\* the first row that raises, and the exception of that row (or "ok").
RECURSIVE ParseRows(_)
ParseRows(rows) ==
    IF rows = <<>> THEN [iocs |-> <<>>, status |-> "ok"]
    ELSE IF RowStatus(Head(rows)) # "ok"
         THEN [iocs |-> <<>>, status |-> RowStatus(Head(rows))]
         ELSE LET rest == ParseRows(Tail(rows))
                  h == Head(rows)
              IN  [iocs |-> <<IOC(h.type, h.value, h.context)>> \o rest.iocs,
                   status |-> rest.status]

(***************************************************************************)
(* The life of one IOCs object: constructed empty, then any MaxOps of      *)
(* extend, extend_from_csv and deduplicate_and_combine_context.            *)
(***************************************************************************)
Row(t, v, c) == [type |-> t, value |-> v, context |-> c]
RowIp == Row(<<" ", "I", "P">>, <<"1", "[", ".", "]", "1">>, <<"A", " ">>)
RowHash == Row(<<"f", "i", "l", "e", "_", "h", "a", "s", "h">>, <<"[", "[", ".", "]", "]">>, <<>>)
RowUrl == Row(<<"U", "r", "l">>, <<"h", "x", "x", "p", "s", ":", "/", "/", "e">>, <<"B">>)
RowIpAgain == Row(<<"i", "p">>, <<"1", ".", "1">>, <<"B">>)
RowOtherIp == Row(<<"i", "p">>, <<"0", ".", "0">>, <<"C">>)
RowIpAsUrl == Row(<<"u", "r", "l">>, <<"1", ".", "1">>, <<>>)
RowShort == Row(<<"i", "p">>, NoneValue, NoneValue)
RowNoType == Row(NoneValue, <<"1", ".", "1">>, <<>>)

CsvInputs ==
    { <<>>, <<RowIp>>, <<RowUrl, RowIp>>, <<RowHash>>, <<RowIp, RowIpAgain>>,
      <<RowIp, RowShort, RowUrl>>, <<RowUrl, RowNoType>> }

AsIOC(row) == IOC(row.type, row.value, row.context)

BackendOutcomes ==
    { NoneOutcome, ValidationErrorOutcome, BackendFaultOutcome,
      IocsOutcome(<<>>), IocsOutcome(<<AsIOC(RowIp)>>),
      IocsOutcome(<<AsIOC(RowUrl), AsIOC(RowIpAgain)>>),
      IocsOutcome(<<AsIOC(RowHash)>>) }

LlmKinds == {"LLMInference", "stub"}

Init ==
    /\ iocs = <<>>
    /\ pre = <<>>
    /\ last = "new"
    /\ nops = 0
    /\ premerged = FALSE
    /\ ret = 0
    /\ raised = "none"
    /\ NormIdle
    /\ AppIdle
    /\ PipeIdle
    /\ CsvIdle

\* IOCs.extend(chunk_content, llm)
Extend ==
    /\ nops < MaxOps
    /\ \E llm \in LlmKinds, b \in BackendOutcomes :
          LET o == LlmInvoke(llm, b)
          IN  /\ iocs' = ExtendIocs(iocs, o)
              /\ pre' = IF o.kind = "iocs" THEN ExtendList(iocs, o.iocs) ELSE pre
              /\ last' = IF o.kind = "iocs" THEN "extend" ELSE "extend_nothing"
              /\ ret' = ExtendReturn(o)
              /\ raised' = ExtendRaises(o)
    /\ premerged' = IsMerged
    /\ nops' = nops + 1
    /\ UNCHANGED normVars
    /\ UNCHANGED pipeVars
    /\ UNCHANGED csvVars
    /\ UNCHANGED appVars

\* IOCs.extend_from_csv(iocs_csv)
ExtendFromCsv ==
    /\ nops < MaxOps
    /\ \E rows \in CsvInputs :
          LET parsed == ParseRows(rows)
          IN  IF parsed.status = "AttributeError"
              THEN /\ raised' = "AttributeError"
                   /\ last' = "extend_from_csv_raised"
                   /\ UNCHANGED <<iocs, pre>>
              ELSE /\ raised' = "none"
                   /\ last' = "extend_from_csv"
                   /\ pre' = ExtendList(iocs, parsed.iocs)
                   /\ iocs' = deduplicate_and_combine_context(ExtendList(iocs, parsed.iocs))
    /\ premerged' = IsMerged
    /\ nops' = nops + 1
    /\ UNCHANGED ret
    /\ UNCHANGED normVars
    /\ UNCHANGED pipeVars
    /\ UNCHANGED csvVars
    /\ UNCHANGED appVars

Next == Dedup \/ Extend \/ ExtendFromCsv

Spec == Init /\ [][Next]_vars

(***************************************************************************)
(* The extraction pipelines: IOCs.from_intel / IOCs.generate (ioc.py) and  *)
(* extract_iocs with process_chunk (hunter.py), one loop iteration per     *)
(* step, on a fixed sequence of per-chunk backend outcomes.                *)
(***************************************************************************)
PipeOutcomes ==
    { NoneOutcome, ValidationErrorOutcome, BackendFaultOutcome,
      IocsOutcome(<<>>), IocsOutcome(<<AsIOC(RowIp)>>),
      IocsOutcome(<<AsIOC(RowIpAgain)>>),
      IocsOutcome(<<AsIOC(RowUrl), AsIOC(RowIpAgain)>>),
      IocsOutcome(<<AsIOC(RowOtherIp), AsIOC(RowIpAsUrl)>>) }

\* The keys extract_iocs reads from params (cli.py builds the dict of them).
ParamKeys == {"chunk_size", "chunk_overlap", "num_predict", "num_ctx"}

\* The params dicts handed in: the full one, each one lacking a key, the
\* empty one.
ParamsInputs == {ParamKeys, {}} \cup {ParamKeys \ {key} : key \in ParamKeys}

\* What an IOCs object handed to generate may hold already.
HeldBefore == { <<AsIOC(RowUrl)>> }

InitPipe ==
    /\ outcomes \in SeqsUpTo(PipeOutcomes, MaxChunks)
    /\ progress \in BOOLEAN
    /\ \/ which = "from_intel" /\ llmKind \in LlmKinds /\ iocs = <<>> /\ params = ParamKeys
       \/ which = "generate" /\ llmKind \in LlmKinds /\ iocs \in HeldBefore /\ params = ParamKeys
       \/ which = "extract_iocs" /\ llmKind = "ChatOllama" /\ iocs = <<>>
          /\ params \in ParamsInputs
    /\ start = iocs
    /\ ppc = "ready"
    /\ ndone = 0
    /\ total = -1
    /\ advances = 0
    /\ calls = 0
    /\ merges = 0
    /\ run = 1
    /\ firstResult = <<>>
    /\ order = <<>>
    /\ pre = <<>>
    /\ last = "new"
    /\ nops = 0
    /\ premerged = FALSE
    /\ ret = 0
    /\ raised = "none"
    /\ NormIdle
    /\ AppIdle
    /\ CsvIdle

\* The chunks in reverse: the chunk of iteration n + 1 counted from the end.
NextChunkReversed(chunks, n) == Len(chunks) - n

\* for chunk in chunks: the index of the chunk iteration n + 1 of the loop
\* takes, the list being iterated in its order.
NextChunk(chunks, n) == n + 1

\* if progress: task_id = progress.add_task(..., total=len(chunks)): the total
\* the sink was told (-1: none).
AddTaskTotal(p, chunks) == IF p THEN Len(chunks) ELSE -1

\* progress.update given advance=1 as well: two units per chunk.
ProgressAdvanceAndUpdateAdvance(p, n) == IF p THEN n + 2 ELSE n

\* if progress and task_id is not None: progress.advance(task_id);
\* progress.update(task_id, description=...): the units advanced so far.
ProgressAdvance(p, n) == IF p THEN n + 1 ELSE n

\* IOCs.from_intel / IOCs.generate up to the loop: cls(iocs=[]) (from_intel),
\* task_id = None, progress.add_task(total=len(content_chunks)).
GenerateStart ==
    /\ which \in {"from_intel", "generate"}
    /\ ppc = "ready"
    /\ total' = AddTaskTotal(progress, outcomes)
    /\ ppc' = "loop"
    /\ UNCHANGED <<which, llmKind, outcomes, progress, ndone, advances, calls, merges,
                   start, run, firstResult, order, params>>
    /\ UNCHANGED objVars
    /\ UNCHANGED normVars
    /\ UNCHANGED csvVars
    /\ UNCHANGED appVars

\* One iteration of the loop of IOCs.generate: self.extend(chunk, llm), then
\* progress.advance and progress.update.
GenerateStep ==
    /\ which \in {"from_intel", "generate"}
    /\ ppc = "loop"
    /\ ndone < Len(outcomes)
    /\ LET chunk == NextChunk(outcomes, ndone)
           o == LlmInvoke(llmKind, outcomes[chunk])
       IN  /\ calls' = calls + BackendCalls(outcomes[chunk])
           /\ order' = Append(order, chunk)
           /\ iocs' = ExtendIocs(iocs, o)
           /\ pre' = IF o.kind = "iocs" THEN ExtendList(iocs, o.iocs) ELSE pre
           /\ premerged' = IsMerged
           /\ last' = IF o.kind = "iocs" THEN "extend" ELSE "extend_nothing"
           /\ merges' = IF o.kind = "iocs" THEN merges + 1 ELSE merges
           /\ ret' = ExtendReturn(o)
           /\ raised' = ExtendRaises(o)
           /\ nops' = nops + 1
           /\ IF ExtendRaises(o) # "none"
              THEN ppc' = "aborted" /\ UNCHANGED <<ndone, advances>>
              ELSE /\ ppc' = "loop"
                   /\ ndone' = ndone + 1
                   /\ advances' = ProgressAdvance(progress, advances)
    /\ UNCHANGED <<which, llmKind, outcomes, progress, total, start, run, firstResult, params>>
    /\ UNCHANGED normVars
    /\ UNCHANGED csvVars
    /\ UNCHANGED appVars

\* The loop of IOCs.generate is exhausted: generate returns, from_intel
\* returns iocs_instance.
GenerateReturn ==
    /\ which \in {"from_intel", "generate"}
    /\ ppc = "loop"
    /\ ndone = Len(outcomes)
    /\ ppc' = "done"
    /\ UNCHANGED <<which, llmKind, outcomes, progress, ndone, total, advances, calls,
                   merges, start, run, firstResult, order, params>>
    /\ UNCHANGED objVars
    /\ UNCHANGED normVars
    /\ UNCHANGED csvVars
    /\ UNCHANGED appVars

\* process_chunk (hunter.py): the list returned; None and a ValidationError
\* give [].
process_chunk(b) == IF b.kind = "iocs" THEN b.iocs ELSE <<>>

\* split_docs(intel, chunk_size=params["chunk_size"],
\* chunk_overlap=params["chunk_overlap"]): whether a subscript raises KeyError.
SplitDocsKeyError(ps) == ~({"chunk_size", "chunk_overlap"} \subseteq ps)

\* process_chunk(chunk.page_content, model, params["num_predict"],
\* params["num_ctx"], seed): whether evaluating the arguments raises KeyError,
\* which is before process_chunk is entered.
ProcessChunkKeyError(ps) == ~({"num_predict", "num_ctx"} \subseteq ps)

\* extract_iocs up to the loop: split_docs, progress.add_task, IOCs(iocs=[]).
ExtractStart ==
    /\ which = "extract_iocs"
    /\ ppc = "ready"
    /\ IF SplitDocsKeyError(params)
       THEN /\ raised' = "KeyError"
            /\ ppc' = "aborted"
            /\ UNCHANGED <<total, iocs>>
       ELSE /\ total' = AddTaskTotal(progress, outcomes)
            /\ iocs' = <<>>
            /\ ppc' = "loop"
            /\ UNCHANGED raised
    /\ UNCHANGED <<pre, last, nops, premerged, ret>>
    /\ UNCHANGED <<which, llmKind, outcomes, progress, ndone, advances, calls, merges,
                   start, run, firstResult, order, params>>
    /\ UNCHANGED normVars
    /\ UNCHANGED csvVars
    /\ UNCHANGED appVars

\* One iteration of the loop of extract_iocs: process_chunk, then
\* iocs_obj.iocs.extend(extracted), progress.advance and progress.update.
ExtractStep ==
    /\ which = "extract_iocs"
    /\ ppc = "loop"
    /\ ndone < Len(outcomes)
    /\ LET chunk == NextChunk(outcomes, ndone)
           b == outcomes[chunk]
       IN  IF ProcessChunkKeyError(params)
           THEN /\ raised' = "KeyError"
                /\ ppc' = "aborted"
                /\ UNCHANGED <<iocs, ndone, advances, calls, order>>
           ELSE /\ calls' = calls + BackendCalls(b)
                /\ order' = Append(order, chunk)
                /\ IF b.kind = "backend_fault"
                   THEN /\ raised' = "BackendFault"
                        /\ ppc' = "aborted"
                        /\ UNCHANGED <<iocs, ndone, advances>>
                   ELSE /\ raised' = "none"
                        /\ ppc' = "loop"
                        /\ iocs' = ExtendList(iocs, process_chunk(b))
                        /\ ndone' = ndone + 1
                        /\ advances' = ProgressAdvance(progress, advances)
    /\ UNCHANGED <<pre, last, nops, premerged, ret, merges>>
    /\ UNCHANGED <<which, llmKind, outcomes, progress, total, start, run, firstResult, params>>
    /\ UNCHANGED normVars
    /\ UNCHANGED csvVars
    /\ UNCHANGED appVars

\* The loop of extract_iocs is exhausted:
\* iocs_obj.deduplicate_and_combine_context(), return iocs_obj.
ExtractReturn ==
    /\ which = "extract_iocs"
    /\ ppc = "loop"
    /\ ndone = Len(outcomes)
    /\ pre' = iocs
    /\ iocs' = deduplicate_and_combine_context(iocs)
    /\ premerged' = IsMerged
    /\ last' = "dedup"
    /\ nops' = nops + 1
    /\ merges' = merges + 1
    /\ ppc' = "done"
    /\ UNCHANGED <<ret, raised>>
    /\ UNCHANGED <<which, llmKind, outcomes, progress, ndone, total, advances, calls,
                   start, run, firstResult, order, params>>
    /\ UNCHANGED normVars
    /\ UNCHANGED csvVars
    /\ UNCHANGED appVars

\* The caller runs the pipeline a second time on the same chunks with the
\* same extractor, on a new empty set.
RunAgain ==
    /\ which \in {"from_intel", "extract_iocs"}
    /\ ppc = "done"
    /\ run = 1
    /\ firstResult' = iocs
    /\ order' = <<>>
    /\ run' = 2
    /\ iocs' = <<>>
    /\ ppc' = "ready"
    /\ ndone' = 0
    /\ total' = -1
    /\ advances' = 0
    /\ calls' = 0
    /\ merges' = 0
    /\ pre' = <<>>
    /\ last' = "new"
    /\ nops' = 0
    /\ premerged' = FALSE
    /\ ret' = 0
    /\ raised' = "none"
    /\ UNCHANGED <<which, llmKind, outcomes, progress, start, params>>
    /\ UNCHANGED normVars
    /\ UNCHANGED csvVars
    /\ UNCHANGED appVars

\* The caller runs the other pipeline on the same chunks, the extractor
\* answering each chunk as before, on a new empty set: extract_iocs after
\* IOCs.from_intel, IOCs.from_intel after extract_iocs.
RunOther ==
    /\ which \in {"from_intel", "extract_iocs"}
    /\ ppc = "done"
    /\ run = 1
    /\ \/ which = "from_intel" /\ which' = "extract_iocs" /\ llmKind' = "ChatOllama"
       \/ which = "extract_iocs" /\ which' = "from_intel" /\ llmKind' \in LlmKinds
    /\ firstResult' = iocs
    /\ order' = <<>>
    /\ run' = 3
    /\ iocs' = <<>>
    /\ ppc' = "ready"
    /\ ndone' = 0
    /\ total' = -1
    /\ advances' = 0
    /\ calls' = 0
    /\ merges' = 0
    /\ pre' = <<>>
    /\ last' = "new"
    /\ nops' = 0
    /\ premerged' = FALSE
    /\ ret' = 0
    /\ raised' = "none"
    /\ UNCHANGED <<outcomes, progress, start, params>>
    /\ UNCHANGED normVars
    /\ UNCHANGED csvVars
    /\ UNCHANGED appVars

NextPipe ==
    \/ GenerateStart \/ GenerateStep \/ GenerateReturn
    \/ ExtractStart \/ ExtractStep \/ ExtractReturn
    \/ RunAgain \/ RunOther

SpecPipe == InitPipe /\ [][NextPipe]_vars

(***************************************************************************)
(* CSV text.  IOCs.as_csv writes with csv.writer in its default dialect    *)
(* (delimiter ",", quotechar ", doublequote, QUOTE_MINIMAL, lineterminator *)
(* "\r\n") into a StringIO, which keeps the "\r\n" as written.             *)
(***************************************************************************)
CR == "\r"
LF == "\n"
DQ == "\""
Comma == ","

\* QUOTE_MINIMAL: a field is quoted when it holds the delimiter, the
\* quotechar or a character of the lineterminator.
NeedsQuote(f) == \E i \in 1..Len(f) : f[i] \in {Comma, DQ, CR, LF}

\* The field as written: quoted fields double their quotechars.
WriteField(f) ==
    IF NeedsQuote(f) THEN <<DQ>> \o Replace(f, <<DQ>>, <<DQ, DQ>>) \o <<DQ>> ELSE f

\* writer.writerow(fields)
WriteRow(fields) ==
    Join(<<Comma>>, [i \in 1..Len(fields) |-> WriteField(fields[i])]) \o <<CR, LF>>

HeaderRow == << <<"T", "y", "p", "e">>, <<"V", "a", "l", "u", "e">>,
               <<"C", "o", "n", "t", "e", "x", "t">> >>

\* The list as_csv writes the rows of, sorted by type first.
RowsSortedByType(l) == SortedByType(l)

\* for ioc in self.iocs: the IOCs as_csv writes a row for, in this order.
RowsOf(l) == l

\* IOCs.as_csv: the string returned.
as_csv(l) ==
    WriteRow(HeaderRow)
        \o Concat([i \in 1..Len(RowsOf(l)) |->
                    WriteRow(<<RowsOf(l)[i].type, RowsOf(l)[i].value, RowsOf(l)[i].context>>)])

(***************************************************************************)
(* csv.reader over StringIO(text), as csv.DictReader drives it.  StringIO  *)
(* hands out the lines, each ending after its "\n"; the reader takes the   *)
(* characters of a line and then an end-of-line signal, and yields a row   *)
(* when that signal finds it outside a quoted field.                       *)
(***************************************************************************)
EOL == "EOL"

ReaderStart == [st |-> "START_RECORD", field |-> <<>>, fields |-> <<>>, rows |-> <<>>]

\* parse_save_field, then the state the terminator c leaves: the row is
\* complete at the end-of-line signal.
SaveField(r, c) ==
    IF c = EOL
    THEN [st |-> "START_RECORD", field |-> <<>>, fields |-> <<>>,
          rows |-> Append(r.rows, Append(r.fields, r.field))]
    ELSE [r EXCEPT !.st = IF c = Comma THEN "START_FIELD" ELSE "EAT_CRNL",
                   !.field = <<>>, !.fields = Append(r.fields, r.field)]

AddChar(r, c, st) == [r EXCEPT !.st = st, !.field = Append(r.field, c)]

StartField(r, c) ==
    IF c \in {LF, CR, EOL, Comma} THEN SaveField(r, c)
    ELSE IF c = DQ THEN [r EXCEPT !.st = "IN_QUOTED_FIELD"]
    ELSE AddChar(r, c, "IN_FIELD")

\* parse_process_char
ProcessChar(r, c) ==
    CASE r.st = "START_RECORD" ->
            IF c = EOL THEN [r EXCEPT !.rows = Append(r.rows, <<>>)]
            ELSE IF c \in {LF, CR} THEN [r EXCEPT !.st = "EAT_CRNL"]
            ELSE StartField(r, c)
      [] r.st = "START_FIELD" -> StartField(r, c)
      [] r.st = "IN_FIELD" ->
            IF c \in {LF, CR, EOL, Comma} THEN SaveField(r, c)
            ELSE AddChar(r, c, "IN_FIELD")
      [] r.st = "IN_QUOTED_FIELD" ->
            IF c = EOL THEN r
            ELSE IF c = DQ THEN [r EXCEPT !.st = "QUOTE_IN_QUOTED_FIELD"]
            ELSE AddChar(r, c, "IN_QUOTED_FIELD")
      [] r.st = "QUOTE_IN_QUOTED_FIELD" ->
            IF c = DQ THEN AddChar(r, c, "IN_QUOTED_FIELD")
            ELSE IF c \in {LF, CR, EOL, Comma} THEN SaveField(r, c)
            ELSE AddChar(r, c, "IN_FIELD")
      [] r.st = "EAT_CRNL" ->
            IF c \in {LF, CR} THEN r
            ELSE IF c = EOL
                 THEN [st |-> "START_RECORD", field |-> <<>>, fields |-> <<>>,
                       rows |-> Append(r.rows, r.fields)]
                 ELSE [r EXCEPT !.st = "Error"]
      [] OTHER -> r

\* The reader is fed character i of the text, and the end-of-line signal
\* after it where a line of the text ends.
FeedChar(r, s, i) ==
    IF s[i] = LF \/ i = Len(s)
    THEN ProcessChar(ProcessChar(r, s[i]), EOL)
    ELSE ProcessChar(r, s[i])

\* The reader fed the characters lo..hi of the text in order.
RECURSIVE ReadChars(_, _, _, _)
ReadChars(r, s, lo, hi) ==
    IF lo > hi THEN r
    ELSE IF lo = hi THEN FeedChar(r, s, lo)
    ELSE LET front == ReadChars(r, s, lo, (lo + hi) \div 2)
         IN  IF front.st = "Error" THEN front
             ELSE ReadChars(front, s, (lo + hi) \div 2 + 1, hi)

\* csv.reader(StringIO(text)): the rows yielded (the text ending inside a
\* quoted field yields the row read so far), and whether _csv.Error is raised.
CsvReader(s) ==
    LET r == ReadChars(ReaderStart, s, 1, Len(s))
    IN  [rows |-> IF r.st = "IN_QUOTED_FIELD"
                  THEN Append(r.rows, Append(r.fields, r.field))
                  ELSE r.rows,
         error |-> r.st = "Error"]

(***************************************************************************)
(* csv.DictReader and IOCs.extend_from_csv on a CSV text.                  *)
(***************************************************************************)
\* The rows DictReader makes dicts of: the first row gives the fieldnames,
\* empty rows are skipped.
DataRows(rows) == IF rows = <<>> THEN <<>> ELSE SelectSeq(Tail(rows), LAMBDA r : r # <<>>)

\* The columns whose lower-cased fieldname is key.
Columns(header, key) == {j \in 1..Len(header) : Lower(header[j]) = key}

\* lower_case_row[key]: the field of the last such column, None (restval)
\* where the row is too short for it, absent without such a column.
FieldOf(header, row, key) ==
    IF Columns(header, key) = {} THEN MissingValue
    ELSE LET j == CHOOSE c \in Columns(header, key) : \A d \in Columns(header, key) : d <= c
         IN  IF j <= Len(row) THEN row[j] ELSE NoneValue

\* The keyword arguments of IOC(**lower_case_row); context has a default.
DictRow(header, row) ==
    Row(FieldOf(header, row, <<"t", "y", "p", "e">>),
        FieldOf(header, row, <<"v", "a", "l", "u", "e">>),
        IF FieldOf(header, row, <<"c", "o", "n", "t", "e", "x", "t">>) = MissingValue
        THEN <<>>
        ELSE FieldOf(header, row, <<"c", "o", "n", "t", "e", "x", "t">>))

\* A row longer than the fieldnames has its rest under the key None, and
\* key.lower() raises AttributeError.
DictRowStatus(header, row) ==
    IF Len(row) > Len(header) THEN "AttributeError" ELSE RowStatus(DictRow(header, row))

\* The loop over the reader: the IOCs appended before the first row that
\* raises, and the exception of that row (or "ok").
RECURSIVE ReadDictRows(_, _)
ReadDictRows(header, rows) ==
    IF rows = <<>> THEN [iocs |-> <<>>, status |-> "ok"]
    ELSE IF DictRowStatus(header, Head(rows)) # "ok"
         THEN [iocs |-> <<>>, status |-> DictRowStatus(header, Head(rows))]
         ELSE LET rest == ReadDictRows(header, Tail(rows))
              IN  [iocs |-> <<AsIOC(DictRow(header, Head(rows)))>> \o rest.iocs,
                   status |-> rest.status]

\* IOCs.extend_from_csv(iocs_csv) on an object holding cur: self.iocs when the
\* call ends and the exception that escapes it (a ValidationError is caught
\* and the rows before it are kept).
extend_from_csv(cur, s) ==
    LET rd == CsvReader(s)
        parsed == IF rd.rows = <<>> THEN [iocs |-> <<>>, status |-> "ok"]
                  ELSE ReadDictRows(Head(rd.rows), DataRows(rd.rows))
    IN  IF parsed.status = "AttributeError"
        THEN [iocs |-> cur, raised |-> "AttributeError"]
        ELSE IF parsed.status = "ok" /\ rd.error
        THEN [iocs |-> cur, raised |-> "csv.Error"]
        ELSE [iocs |-> deduplicate_and_combine_context(ExtendList(cur, parsed.iocs)),
              raised |-> "none"]

(***************************************************************************)
(* Writing an IOCs object as CSV and reading the text into an empty one.   *)
(***************************************************************************)
\* IOCs an object may hold, as IOC(...) stores them: two of one value, one
\* whose value an earlier normalisation left as "[.]", one whose fields need
\* quoting, one with every field empty.
CsvUniverse ==
    { AsIOC(RowIp), AsIOC(RowIpAgain), AsIOC(RowUrl), AsIOC(RowHash),
      IOC(<<"d", "n", "s">>, <<"a", ",", "b">>, <<"x", "\"", "\n", "y">>),
      IOC(<<>>, <<>>, <<>>) }

InitCsv ==
    /\ iocs \in SeqsUpTo(CsvUniverse, MaxLen)
    /\ pre = <<>>
    /\ last = "new"
    /\ nops = 0
    /\ premerged = FALSE
    /\ ret = 0
    /\ raised = "none"
    /\ text = <<>>
    /\ back = <<>>
    /\ cpc = "new"
    /\ NormIdle
    /\ AppIdle
    /\ PipeIdle

\* text = iocs_obj.as_csv()
AsCsv ==
    /\ cpc = "new"
    /\ text' = as_csv(iocs)
    /\ pre' = iocs
    /\ last' = "as_csv"
    /\ cpc' = "written"
    /\ UNCHANGED <<iocs, nops, premerged, ret, raised, back>>
    /\ UNCHANGED normVars
    /\ UNCHANGED appVars
    /\ UNCHANGED pipeVars

\* other = IOCs(iocs=[]); other.extend_from_csv(text)
FromCsv ==
    /\ cpc = "written"
    /\ back' = extend_from_csv(<<>>, text).iocs
    /\ raised' = extend_from_csv(<<>>, text).raised
    /\ cpc' = "read"
    /\ UNCHANGED <<iocs, pre, last, nops, premerged, ret, text>>
    /\ UNCHANGED normVars
    /\ UNCHANGED appVars
    /\ UNCHANGED pipeVars

NextCsv == AsCsv \/ FromCsv

SpecCsv == InitCsv /\ [][NextCsv]_vars

(***************************************************************************)
(* Claims about deduplicate_and_combine_context.  pre is the list the      *)
(* merge pass found, iocs the list it left.                                *)
(***************************************************************************)
ValuesOf(l) == {l[i].value : i \in 1..Len(l)}
EntitiesOf(l) == {l[i] : i \in 1..Len(l)}
Members(l, v) == {i \in 1..Len(l) : l[i].value = v}
FirstIndex(l, v) == CHOOSE i \in Members(l, v) : \A j \in Members(l, v) : i <= j
Bar == <<" ", "|", " ">>

\* C1: after the merge pass no two IOCs of the list have the same value, and
\* every value of the input list (duplicates or not, the empty list included)
\* occurs exactly once in the result.
C1_MergeUniqueness ==
    last = "dedup" =>
        /\ \A i, j \in 1..Len(iocs) : i # j => iocs[i].value # iocs[j].value
        /\ \A k \in 1..Len(pre) : Cardinality(Members(iocs, pre[k].value)) = 1
        /\ ValuesOf(iocs) = ValuesOf(pre)

\* C1 witness: a list in which one value occurs twice, under two types, and a
\* second value occurs as well, has been merged into two IOCs.
C1_Witness ==
    /\ last = "dedup"
    /\ Len(pre) = 3
    /\ Len(iocs) = 2
    /\ \E i, j \in 1..Len(pre) :
          i # j /\ pre[i].value = pre[j].value /\ pre[i].type # pre[j].type

\* C2: the merge pass is idempotent: run on a list that a merge pass produced,
\* it leaves exactly that list (same entities, same fields, same order).
C2_MergeIdempotent == (last = "dedup" /\ premerged) => iocs = pre

\* C2 witness: the second of two merge passes has run on a list that holds a
\* combined context and two IOCs of the same type.
C2_Witness ==
    /\ last = "dedup"
    /\ premerged
    /\ nops = 2
    /\ \E i, j \in 1..Len(iocs) :
          /\ i # j
          /\ iocs[i].type = iocs[j].type
          /\ Contains(iocs[i].context, Bar)

\* The permutations of 1..n, for every length a list under test can have.
IndexPermutations ==
    [n \in 0..MaxLen |->
        {f \in [1..n -> 1..n] : \A i, j \in 1..n : i # j => f[i] # f[j]}]

\* Whether the re-ordering f of l keeps the IOCs of equal value in their order.
KeepsGroupOrder(l, f) ==
    \A i, j \in 1..Len(l) :
        (i < j /\ l[f[i]].value = l[f[j]].value) => f[i] < f[j]

Reordered(l, f) == [i \in 1..Len(l) |-> l[f[i]]]

TypesOf(l) == [i \in 1..Len(l) |-> l[i].type]

\* C3 as claimed: the merge pass commutes with re-ordering of its input: every
\* permutation of the input list merges to the same set of (type, value,
\* context) entities.
C3_MergeCommutesWithReordering ==
    last = "dedup" =>
        \A f \in IndexPermutations[Len(pre)] :
            EntitiesOf(deduplicate_and_combine_context(Reordered(pre, f)))
                = EntitiesOf(iocs)

\* C3 as amended: every permutation of the input list merges to the same set of
\* values; a permutation in which the IOCs of equal value keep their relative
\* order merges to the same set of (type, value, context) entities, in a list
\* with the same sequence of types.
C3_MergeCommutesKeepingGroupOrder ==
    last = "dedup" =>
        \A f \in IndexPermutations[Len(pre)] :
            LET m == deduplicate_and_combine_context(Reordered(pre, f))
            IN  /\ ValuesOf(m) = ValuesOf(iocs)
                /\ KeepsGroupOrder(pre, f) =>
                      (EntitiesOf(m) = EntitiesOf(iocs) /\ TypesOf(m) = TypesOf(iocs))

\* C3 witness: a merged list of three IOCs in which the first and the last
\* share a value, with different non-empty contexts, around an IOC of
\* another value.
C3_Witness ==
    /\ last = "dedup"
    /\ Len(pre) = 3
    /\ pre[1].value = pre[3].value
    /\ pre[2].value # pre[1].value
    /\ pre[1].context # <<>> /\ pre[3].context # <<>>
    /\ pre[1].context # pre[3].context
    /\ Len(iocs) = 2

\* The contexts of the IOCs of value v in l, in list order, the empty ones
\* left out.
NonEmptyContexts(l, v) ==
    LET g == SelectSeq(l, LAMBDA ioc : ioc.value = v)
    IN  SelectSeq([i \in 1..Len(g) |-> g[i].context], LAMBDA c : c # <<>>)

RECURSIVE BarSeparated(_)
BarSeparated(parts) ==
    IF parts = <<>> THEN <<>>
    ELSE IF Len(parts) = 1 THEN parts[1]
    ELSE BarSeparated(SubSeq(parts, 1, Len(parts) - 1)) \o Bar \o parts[Len(parts)]

\* C4: when the merge pass merges two or more IOCs of one value, the merged
\* context is their non-empty contexts, in input order, separated by " | ";
\* an empty context adds no segment, so the result neither starts nor ends
\* with the separator nor holds it twice in a row.
C4_ContextJoin ==
    last = "dedup" =>
        \A v \in ValuesOf(pre) :
            Cardinality(Members(pre, v)) >= 2 =>
                \A i \in Members(iocs, v) :
                    /\ iocs[i].context = BarSeparated(NonEmptyContexts(pre, v))
                    /\ ~StartsWith(iocs[i].context, Bar)
                    /\ ~Contains(iocs[i].context, <<"|", " ", " ", "|">>)
                    /\ ~Contains(iocs[i].context, <<" ", "|", " ", "|">>)
                    /\ (iocs[i].context = <<>>
                        \/ iocs[i].context[Len(iocs[i].context)] \notin {" ", "|"})

\* C4 witness: three IOCs of one value with contexts "A", "" and "B", in that
\* order, have been merged into one IOC with context "A | B".
C4_Witness ==
    /\ last = "dedup"
    /\ Len(pre) = 3
    /\ pre[1].value = pre[2].value /\ pre[2].value = pre[3].value
    /\ pre[1].context = <<"A">> /\ pre[2].context = <<>> /\ pre[3].context = <<"B">>
    /\ Len(iocs) = 1
    /\ iocs[1].context = <<"A", " ", "|", " ", "B">>

\* C5: when the merge pass merges IOCs that share a value but differ in type,
\* the merged IOC has the type of the first of them in the input list, under
\* the value they share.
C5_FirstTypeWins ==
    last = "dedup" =>
        \A v \in ValuesOf(pre) :
            /\ Members(iocs, v) # {}
            /\ \A i \in Members(iocs, v) : iocs[i].type = pre[FirstIndex(pre, v)].type

\* C5 witness: IOCs of one value, the first of type "url" and a later one of
\* type "ip", have been merged into an IOC of type "url".
C5_Witness ==
    /\ last = "dedup"
    /\ ~premerged
    /\ \E i, j \in 1..Len(pre) :
          /\ i < j
          /\ i = FirstIndex(pre, pre[i].value)
          /\ pre[i].value = pre[j].value
          /\ pre[i].type = <<"u", "r", "l">>
          /\ pre[j].type = <<"i", "p">>
          /\ \E k \in 1..Len(iocs) :
                iocs[k].value = pre[i].value /\ iocs[k].type = <<"u", "r", "l">>

\* C6: after the merge pass the list is sorted ascending by type (compared as
\* strings), and IOCs of equal type are in the order in which their values
\* were first seen in the input.
C6_SortedByTypeStable ==
    last = "dedup" =>
        \A i, j \in 1..Len(iocs) :
            i < j =>
                /\ ~StrLess(iocs[j].type, iocs[i].type)
                /\ iocs[i].type = iocs[j].type =>
                      FirstIndex(pre, iocs[i].value) < FirstIndex(pre, iocs[j].value)

\* C6 witness: a list that starts with a "url" IOC followed by two "ip" IOCs
\* of different values has been merged into three IOCs, the "url" one last.
C6_Witness ==
    /\ last = "dedup"
    /\ Len(pre) = 3
    /\ Len(iocs) = 3
    /\ pre[1].type = <<"u", "r", "l">>
    /\ pre[2].type = <<"i", "p">> /\ pre[3].type = <<"i", "p">>
    /\ iocs[3] = pre[1] /\ iocs[1] = pre[2] /\ iocs[2] = pre[3]

(***************************************************************************)
(* Claims about normalize_value.                                           *)
(***************************************************************************)
\* C7: value normalisation is idempotent: an IOC rebuilt from the value a
\* constructed IOC stores (normalize_value applied a second time) stores the
\* same value, for every input string, nested brackets such as "[[.]]" included.
C7_NormalizeIdempotent == npc = "rebuilt" => twice = once

\* The six replacements with the two "...s://" patterns first.
LongSchemesFirst(v) ==
    Replace(Replace(Replace(Replace(Replace(Replace(v,
        DotBr, <<".">>), ColonBr, <<":">>),
        Hxxps, Https), HXXps, Https), Hxxp, Http), HXXp, Http)

\* The six replacements with the two "...p://" patterns first.
ShortSchemesFirst(v) ==
    Replace(Replace(Replace(Replace(Replace(Replace(v,
        DotBr, <<".">>), ColonBr, <<":">>),
        Hxxp, Http), HXXp, Http), Hxxps, Https), HXXps, Https)

\* C9: the value a constructed IOC stores is the same whether the
\* "hxxp://"/"hXXp://" replacements run before or after the
\* "hxxps://"/"hXXps://" ones: the short scheme pattern never alters text the
\* long one matches.
C9_SchemeOrderIrrelevant ==
    npc # "new" => once = LongSchemesFirst(raw) /\ once = ShortSchemesFirst(raw)

\* C9 witness: an input holding both a short and a long scheme pattern has
\* been normalised, and both were rewritten.
C9_Witness ==
    /\ npc = "built"
    /\ Contains(raw, Hxxp) /\ Contains(raw, Hxxps)
    /\ Contains(once, Http) /\ Contains(once, Https)
    /\ ~Contains(once, Hxxp) /\ ~Contains(once, Hxxps)

(***************************************************************************)
(* Claims about the IOCs an IOCs object holds.                             *)
(***************************************************************************)
\* The type of every IOC held has no uppercase letter, no underscore and no
\* whitespace at either end.
TypesNormalized ==
    \A i \in 1..Len(iocs) :
        /\ \A k \in 1..Len(iocs[i].type) :
              /\ iocs[i].type[k] # "_"
              /\ \A u \in 1..Len(UpperCase) : iocs[i].type[k] # UpperCase[u]
        /\ Strip(iocs[i].type) = iocs[i].type

\* C8: after any sequence of IOC construction, extend, extend_from_csv and
\* merge passes, every IOC held has a type without uppercase letter,
\* underscore or surrounding whitespace, and a value that contains none of
\* the six defang patterns.
C8_StoredIOCsNormalized ==
    /\ TypesNormalized
    /\ \A i \in 1..Len(iocs) : \A pat \in DefangPatterns : ~Contains(iocs[i].value, pat)

(***************************************************************************)
(* Claims about the extraction pipelines.                                  *)
(***************************************************************************)
\* What the extractor returned for each chunk: the IOCs of a result, nothing
\* for the None sentinel and for a validation fault.
RECURSIVE ChunkResultsConcatenated(_)
ChunkResultsConcatenated(os) ==
    IF os = <<>> THEN <<>>
    ELSE (IF Head(os).kind = "iocs" THEN Head(os).iocs ELSE <<>>)
            \o ChunkResultsConcatenated(Tail(os))

\* C10: a pipeline run started on an empty set (IOCs.from_intel,
\* extract_iocs) that completes returns exactly the merge of the per-chunk
\* results concatenated in document order, and a second run on the same
\* chunks with the same extractor returns the same list.
C10_PipelineIsMergeOfConcatenation ==
    (ppc = "done" /\ which \in {"from_intel", "extract_iocs"}) =>
        /\ iocs = deduplicate_and_combine_context(ChunkResultsConcatenated(outcomes))
        /\ run = 2 => iocs = firstResult

\* C10 witness: the second from_intel run over three chunks with results
\* [(ip, 1.1, "A")], [] and [(ip, 1.1, "B")] has returned the single IOC
\* (ip, 1.1, "A | B").
C10_Witness ==
    /\ ppc = "done"
    /\ which = "from_intel"
    /\ run = 2
    /\ outcomes = << IocsOutcome(<<AsIOC(RowIp)>>), IocsOutcome(<<>>),
                     IocsOutcome(<<AsIOC(RowIpAgain)>>) >>
    /\ iocs = << [type |-> <<"i", "p">>, value |-> <<"1", ".", "1">>,
                  context |-> <<"A", " ", "|", " ", "B">>] >>

\* The chunks other than chunk k, in document order.
OtherChunks(os, k) == [i \in 1..(Len(os) - 1) |-> IF i < k THEN os[i] ELSE os[i + 1]]

NoBackendFault(os) == \A i \in 1..Len(os) : os[i].kind # "backend_fault"

\* C11: when the extractor hits a schema-validation fault on chunk k (no
\* chunk hits a backend fault, no parameter is missing), nothing is raised out of the pipeline, the run
\* is never aborted, and the run that completes has processed every chunk and
\* returns what the same run over the other chunks alone returns: the merge
\* of what the set held and the results of all other chunks.
C11_ValidationFaultTolerated ==
    \A k \in 1..Len(outcomes) :
        (/\ outcomes[k].kind = "validation_error"
         /\ NoBackendFault(outcomes)
         /\ params = ParamKeys) =>
            /\ raised = "none"
            /\ ppc # "aborted"
            /\ ppc = "done" =>
                  /\ ndone = Len(outcomes)
                  /\ iocs = deduplicate_and_combine_context(
                              start \o ChunkResultsConcatenated(OtherChunks(outcomes, k)))

\* C11 witness: generate with a stub extractor that raises the validation
\* fault on chunk 2 of 3 has completed on a set that held (url, https://e, B),
\* and the set holds the IOCs of chunks 1 and 3 merged, before the url.
C11_Witness ==
    /\ ppc = "done"
    /\ which = "generate"
    /\ llmKind = "stub"
    /\ outcomes = << IocsOutcome(<<AsIOC(RowIp)>>), ValidationErrorOutcome,
                     IocsOutcome(<<AsIOC(RowIpAgain)>>) >>
    /\ iocs = << [type |-> <<"i", "p">>, value |-> <<"1", ".", "1">>,
                  context |-> <<"A", " ", "|", " ", "B">>],
                 AsIOC(RowUrl) >>

\* C12: in one pipeline run the merge pass runs exactly once, after the last
\* chunk has been processed and never between chunks: no merge pass has run
\* while the loop is going on or when the run is aborted, and exactly one has
\* run when the pipeline has returned.
C12_MergeOnceAfterLastChunk ==
    /\ ppc \in {"ready", "loop", "aborted"} => merges = 0
    /\ ppc = "done" => merges = 1

\* The first chunk whose backend call ends in a backend fault (0: none).
FirstBackendFault(os) ==
    IF NoBackendFault(os) THEN 0
    ELSE CHOOSE k \in 1..Len(os) :
            /\ os[k].kind = "backend_fault"
            /\ \A i \in 1..(k - 1) : os[i].kind # "backend_fault"

\* C13: a backend fault on chunk k is not swallowed.  invoke_model lets it
\* through; once the call for chunk k has been made the fault has left
\* IOCs.extend and the run is aborted with chunk k not counted as processed;
\* no call is made for a chunk after k; and the run never returns a set.
C13_BackendFaultAborts ==
    LET k == FirstBackendFault(outcomes)
    IN  k > 0 =>
            /\ LlmInvoke(llmKind, outcomes[k]).kind = "backend_fault"
            /\ calls <= k
            /\ ndone < k
            /\ ppc # "done"
            /\ calls = k <=> raised = "BackendFault"
            /\ raised = "BackendFault" => ppc = "aborted"

\* C13 witness: from_intel with an LLMInference over three chunks, the
\* backend failing on chunk 2, is aborted after two calls with one chunk
\* processed.
C13_Witness ==
    /\ ppc = "aborted"
    /\ which = "from_intel"
    /\ llmKind = "LLMInference"
    /\ outcomes = << IocsOutcome(<<AsIOC(RowIp)>>), BackendFaultOutcome,
                     IocsOutcome(<<AsIOC(RowIpAgain)>>) >>
    /\ calls = 2
    /\ ndone = 1
    /\ raised = "BackendFault"

\* The last Len(t) elements of s are t.
EndsWith(s, t) == Len(t) <= Len(s) /\ SubSeq(s, Len(s) - Len(t) + 1, Len(s)) = t

C15_ProgressTotalAndAdvances ==
    progress =>
        /\ (calls >= 1 \/ ppc \in {"loop", "done"}) => total = Len(outcomes)
        /\ advances = ndone
        /\ ppc = "done" => advances = Len(outcomes)
        /\ (ppc = "loop" /\ NoBackendFault(SubSeq(outcomes, 1, calls))) => advances = calls

\* C15 witness: with a progress sink, extract_iocs over three chunks that
\* gave one IOC, a validation fault and nothing has returned: total 3 and
\* three units advanced.
C15_Witness ==
    /\ progress
    /\ which = "extract_iocs"
    /\ ppc = "done"
    /\ outcomes = << IocsOutcome(<<AsIOC(RowIp)>>), ValidationErrorOutcome, NoneOutcome >>
    /\ total = 3
    /\ advances = 3

\* C16: every extractor invocation makes exactly one backend call, also the
\* one that ends in a validation fault: the backend calls made so far are
\* one for each chunk processed, and one more for the chunk whose backend
\* fault has aborted the run; a run that has returned has made exactly as many
\* backend calls as there are chunks.
C16_OneBackendCallPerChunk ==
    /\ calls = ndone + (IF raised = "BackendFault" THEN 1 ELSE 0)
    /\ ppc = "done" => calls = Len(outcomes)

\* C16 witness: from_intel with an LLMInference over three chunks, all three
\* ending in a validation fault, has returned after three backend calls.
C16_Witness ==
    /\ ppc = "done"
    /\ which = "from_intel"
    /\ llmKind = "LLMInference"
    /\ outcomes = << ValidationErrorOutcome, ValidationErrorOutcome, ValidationErrorOutcome >>
    /\ calls = 3

\* C17: the extractor is called on the chunks in document order, each chunk
\* once: the calls made so far are those on chunks 1, 2, ... in this order,
\* and a run that has returned has called every chunk.  Whenever the loop is
\* between iterations every call made has returned and its result is in the
\* set (for IOCs.generate merged, for extract_iocs appended), so the call on
\* chunk i + 1 starts after the one on chunk i is accounted for; a call that
\* has not been counted as processed is the one that ended the run by raising.
C17_SequentialInDocumentOrder ==
    /\ order = [i \in 1..Len(order) |-> i]
    /\ Len(order) <= Len(outcomes)
    /\ ppc = "done" => Len(order) = Len(outcomes)
    /\ ppc = "loop" =>
          /\ Len(order) = ndone
          /\ iocs = IF which = "extract_iocs"
                    THEN ChunkResultsConcatenated(SubSeq(outcomes, 1, ndone))
                    ELSE deduplicate_and_combine_context(
                            start \o ChunkResultsConcatenated(SubSeq(outcomes, 1, ndone)))
    /\ Len(order) - ndone \in {0, 1}
    /\ Len(order) - ndone = 1 => ppc = "aborted"

\* C17 witness: extract_iocs is between the calls on chunk 2 and chunk 3,
\* holding the results of chunks 1 and 2 unmerged.
C17_Witness ==
    /\ which = "extract_iocs"
    /\ ppc = "loop"
    /\ Len(outcomes) = 3
    /\ order = <<1, 2>>
    /\ iocs = <<AsIOC(RowIp), AsIOC(RowIpAgain)>>

\* C20: extract_iocs handed a params dict that lacks chunk_size,
\* chunk_overlap, num_predict or num_ctx fails before any chunk is processed,
\* whatever the number of chunks (zero included): no extractor call is made,
\* no progress is advanced and the run never returns a set.
C20_ConfigFaultFailsFast ==
    (which = "extract_iocs" /\ params # ParamKeys) =>
        /\ calls = 0
        /\ advances = 0
        /\ ndone = 0
        /\ ppc # "done"

(***************************************************************************)
(* Claims about the CSV text of an IOCs object.                            *)
(***************************************************************************)
\* C18: the text as_csv gives for an IOCs object, read with extend_from_csv
\* into an empty object, gives an object with the same (type, value,
\* context) entities, and nothing is raised.
C18_CsvRoundTrip ==
    cpc = "read" => (raised = "none" /\ EntitiesOf(back) = EntitiesOf(iocs))

\* The rows a CSV text of the list l should read as: the header, then type,
\* value, context of each IOC in list order.
RowFields(l) == <<HeaderRow>> \o [i \in 1..Len(l) |-> <<l[i].type, l[i].value, l[i].context>>]

\* The data rows (all rows but the first) are in ascending order of their
\* first field.
AscendingByType(rows) ==
    \A i, j \in 2..Len(rows) : i < j => ~StrLess(rows[j][1], rows[i][1])

HeaderLine ==
    <<"T", "y", "p", "e", ",", "V", "a", "l", "u", "e", ",",
      "C", "o", "n", "t", "e", "x", "t", "\r", "\n">>

\* C19 as stated: the text as_csv returns reads as one header row
\* Type,Value,Context and one row of type, value, context per IOC, the rows
\* ascending by type, and the object holds what it held.
C19_RowsInSortedOrder ==
    cpc # "new" =>
        /\ StartsWith(text, HeaderLine)
        /\ ~CsvReader(text).error
        /\ Len(CsvReader(text).rows) = Len(iocs) + 1
        /\ EntitiesOf(CsvReader(text).rows) = EntitiesOf(RowFields(iocs))
        /\ AscendingByType(CsvReader(text).rows)
        /\ iocs = pre

\* C19: the text as_csv returns reads as one header row Type,Value,Context
\* and one row of type, value, context per IOC, the rows in the order of the
\* list self.iocs, which is ascending by type when the list is the result of
\* a merge pass; the object holds what it held.
C19_RowsInListOrder ==
    cpc # "new" =>
        /\ StartsWith(text, HeaderLine)
        /\ ~CsvReader(text).error
        /\ CsvReader(text).rows = RowFields(iocs)
        /\ iocs = deduplicate_and_combine_context(iocs) => AscendingByType(CsvReader(text).rows)
        /\ iocs = pre

\* C19 witness: as_csv was called on the list [(url, https://e, B),
\* (ip, 1.1, A)], and the row of the url comes first.
C19_Witness ==
    /\ cpc = "written"
    /\ iocs = <<AsIOC(RowUrl), AsIOC(RowIp)>>
    /\ Len(CsvReader(text).rows) = 3
    /\ CsvReader(text).rows[2][1] = <<"u", "r", "l">>
    /\ CsvReader(text).rows[3][1] = <<"i", "p">>

\* C27: merging after every chunk gives what merging once at the end gives.
\* When the other pipeline has been run on the same per-chunk results
\* (results, empty results, None, validation faults) from an empty set and
\* has returned, its list is the list the first pipeline returned, IOC for
\* IOC in the same order: IOCs.from_intel against extract_iocs and the
\* reverse.
C27_IncrementalEqualsFinalMerge ==
    (ppc = "done" /\ run = 3) => iocs = firstResult

\* C27 witness: extract_iocs has returned after IOCs.from_intel on three
\* chunks giving [(url, https://e, B), (ip, 1.1, B)], None and
\* [(ip, 1.1, A)]: both lists are the ip with context "B | A", then the url.
C27_Witness ==
    /\ ppc = "done"
    /\ run = 3
    /\ which = "extract_iocs"
    /\ outcomes = << IocsOutcome(<<AsIOC(RowUrl), AsIOC(RowIpAgain)>>), NoneOutcome,
                     IocsOutcome(<<AsIOC(RowIp)>>) >>
    /\ firstResult = << [type |-> <<"i", "p">>, value |-> <<"1", ".", "1">>,
                         context |-> <<"B", " ", "|", " ", "A">>],
                        AsIOC(RowUrl) >>
    /\ merges = 1

\* C28: when a backend fault has aborted IOCs.generate (called directly or by
\* IOCs.from_intel) at chunk k, the object is not rolled back: it holds the
\* merge of what it held before the run and the results of chunks 1..k-1,
\* and nothing of chunk k or a later chunk.
C28_NoRollbackOnAbort ==
    (which \in {"from_intel", "generate"} /\ ppc = "aborted") =>
        LET k == FirstBackendFault(outcomes)
        IN  /\ k > 0
            /\ IF \E i \in 1..(k - 1) : outcomes[i].kind = "iocs"
               THEN iocs = deduplicate_and_combine_context(
                              start \o ChunkResultsConcatenated(SubSeq(outcomes, 1, k - 1)))
               ELSE iocs = start

\* C28 witness: generate on an object holding (url, https://e, B) was aborted
\* by the backend fault at chunk 2 of 3; the object holds the ip of chunk 1
\* and the url, and not the ip 0.0 of chunk 3.
C28_Witness ==
    /\ which = "generate"
    /\ ppc = "aborted"
    /\ outcomes = << IocsOutcome(<<AsIOC(RowIp)>>), BackendFaultOutcome,
                     IocsOutcome(<<AsIOC(RowOtherIp), AsIOC(RowIpAsUrl)>>) >>
    /\ iocs = <<AsIOC(RowIp), AsIOC(RowUrl)>>

(***************************************************************************)
(* IOCs.extend_from_csv on CSV texts with rows that cannot become an IOC.  *)
(***************************************************************************)
MaxRows == 2

FieldsIp == << <<"i", "p">>, <<"1", ".", "1">>, <<"A">> >>
FieldsIpAgain == << <<"I", "P", " ">>, <<"1", "[", ".", "]", "1">>, <<"B">> >>
FieldsUrl == << <<"u", "r", "l">>, <<"e">>, <<"B">> >>
\* A row of one field: the other fieldnames get None.
FieldsShort == << <<"i", "p">> >>
\* A context with a comma written without quotes: a row of four fields.
FieldsLong == << <<"i", "p">>, <<"0", ".", "0">>, <<"a">>, <<" ", "b">> >>

CsvRowInputs == {FieldsIp, FieldsIpAgain, FieldsUrl, FieldsShort, FieldsLong}

\* The header as_csv writes, and one with the columns in another order.
CsvHeaderInputs ==
    { HeaderRow,
      << <<"V", "a", "l", "u", "e">>, <<"T", "y", "p", "e">>,
         <<"C", "o", "n", "t", "e", "x", "t">> >> }

CsvTextOf(header, rows) ==
    WriteRow(header) \o Concat([i \in 1..Len(rows) |-> WriteRow(rows[i])])

CsvTexts ==
    {CsvTextOf(h, rows) : h \in CsvHeaderInputs, rows \in SeqsUpTo(CsvRowInputs, MaxRows)}

InitCsvText ==
    /\ iocs \in {<<>>} \cup HeldBefore
    /\ text \in CsvTexts
    /\ cpc = "text"
    /\ back = <<>>
    /\ pre = <<>>
    /\ last = "new"
    /\ nops = 0
    /\ premerged = FALSE
    /\ ret = 0
    /\ raised = "none"
    /\ NormIdle
    /\ AppIdle
    /\ PipeIdle

\* iocs_obj.extend_from_csv(text)
ExtendFromCsvText ==
    /\ cpc = "text"
    /\ iocs' = extend_from_csv(iocs, text).iocs
    /\ raised' = extend_from_csv(iocs, text).raised
    /\ pre' = iocs
    /\ last' = "extend_from_csv"
    /\ nops' = nops + 1
    /\ cpc' = "extended"
    /\ UNCHANGED <<premerged, ret, text, back>>
    /\ UNCHANGED normVars
    /\ UNCHANGED appVars
    /\ UNCHANGED pipeVars

NextCsvText == ExtendFromCsvText

SpecCsvText == InitCsvText /\ [][NextCsvText]_vars

\* The rows of the text that come before the first row IOC(**row) raises on.
RowsBeforeFirstInvalid(s) ==
    LET rd == CsvReader(s)
        header == Head(rd.rows)
        rows == DataRows(rd.rows)
        bad == {i \in 1..Len(rows) : DictRowStatus(header, rows[i]) # "ok"}
        n == IF bad = {} THEN Len(rows)
             ELSE (CHOOSE i \in bad : \A j \in bad : i <= j) - 1
    IN  [i \in 1..n |-> AsIOC(DictRow(header, rows[i]))]

\* C29: extend_from_csv stops at the first row that cannot be validated: no
\* error is raised to the caller, the rows before that row are added, that
\* row and the rows after it are dropped, and the merge pass has run over
\* the result.
C29_StopsAtFirstInvalidRow ==
    cpc = "extended" =>
        /\ raised = "none"
        /\ iocs = deduplicate_and_combine_context(pre \o RowsBeforeFirstInvalid(text))

(***************************************************************************)
(* Acquisition and the analyze command (web_scraper.py, knowledge.py,      *)
(* cli.py).                                                                *)
(***************************************************************************)
MaxDocs == 2

\* page_content of the documents a loader can hand back.
PageContents == {<<>>, <<" ">>, <<"a">>, <<" ", "a">>}

Document(s) == [page_content |-> s]

\* What loading does: loader.load() / converter.convert() raises, or it
\* returns these documents.
LoadFault == [fault |-> TRUE, pages |-> <<>>]
LoadOf(ds) == [fault |-> FALSE, pages |-> ds]

AcquiredDocs(ds) == [kind |-> "docs", docs |-> ds]
AcquireRaised(e) == [kind |-> e, docs |-> <<>>]

\* scrape_web without the check for empty pages.
scrape_web_unchecked(load) ==
    IF load.fault THEN AcquireRaised("ValueError") ELSE AcquiredDocs(load.pages)

\* scrape_web: a fault of loader.load() and the ValueError raised for empty
\* pages both leave through `except Exception`, as a ValueError.
scrape_web(load) ==
    IF load.fault
    THEN AcquireRaised("ValueError")
    ELSE LET empty_docs ==
                 SelectSeq(load.pages, LAMBDA doc : Strip(doc.page_content) = <<>>)
         IN  IF empty_docs # <<>>
             THEN AcquireRaised("ValueError")
             ELSE AcquiredDocs(load.pages)

\* acquire_intel: a URL is scraped, anything else is converted to one
\* document, whose content is not inspected.
acquire_intel(kind, load) ==
    IF kind = "url"
    THEN scrape_web(load)
    ELSE IF load.fault
         THEN AcquireRaised("Exception")
         ELSE AcquiredDocs(<<Document(load.pages[1].page_content)>>)

AnalyzeOptions == SUBSET {"write_intel", "write_hypotheses", "write_iocs"}

InitAnalyze ==
    /\ srcKind \in {"url", "file"}
    /\ \/ loaded = LoadFault
       \/ /\ srcKind = "url"
          /\ \E ds \in SeqsUpTo({Document(s) : s \in PageContents}, MaxDocs) :
                 loaded = LoadOf(ds)
       \/ /\ srcKind = "file"
          /\ \E s \in PageContents : loaded = LoadOf(<<Document(s)>>)
    /\ opts \in AnalyzeOptions
    /\ apc = "start"
    /\ acquired = <<>>
    /\ effects = <<>>
    /\ HuntIdle
    /\ ReportIdle
    /\ NormIdle
    /\ ObjIdle
    /\ PipeIdle
    /\ CsvIdle

\* analyze: a fault of acquire_intel ends the command with exit code 1;
\* otherwise the documents are saved when asked for, and the command ends at
\* iocs_obj.read_intel, an attribute that IOCs does not have.
Analyze ==
    /\ apc = "start"
    /\ LET intel == acquire_intel(srcKind, loaded)
       IN  /\ acquired' = intel
           /\ IF intel.kind # "docs"
              THEN /\ apc' = "exit1"
                   /\ effects' = effects
              ELSE /\ apc' = "crashed"
                   /\ effects' =
                          IF "write_intel" \in opts
                          THEN Append(effects, "save_docs_to_disk")
                          ELSE effects
    /\ UNCHANGED <<srcKind, loaded, opts>>
    /\ UNCHANGED huntVars
    /\ UNCHANGED reportVars
    /\ UNCHANGED normVars
    /\ UNCHANGED objVars
    /\ UNCHANGED pipeVars
    /\ UNCHANGED csvVars

NextAnalyze == Analyze

SpecAnalyze == InitAnalyze /\ [][NextAnalyze]_vars

\* Whether loading failed or a loaded page has only whitespace in it.
AcquisitionFault(load) ==
    \/ load.fault
    \/ \E i \in 1..Len(load.pages) : Strip(load.pages[i].page_content) = <<>>

MaxReplies == 3
MaxHuntOps == 2

\* What one call of llm.invoke_model does: it returns None, raises
\* ValidationError, raises something else, or returns an object of the schema
\* asked for; p says which of the model's objects.
NoneReply == [kind |-> "none", p |-> 0]
ValidationErrorReply == [kind |-> "validation_error", p |-> 0]
BackendFaultReply == [kind |-> "backend_fault", p |-> 0]
ObjectReply(p) == [kind |-> "object", p |-> p]

Replies ==
    {NoneReply, ValidationErrorReply, BackendFaultReply, ObjectReply(1), ObjectReply(2)}

\* Scope(): every field None.  timeframe_days is kept as its decimal digits.
DefaultScope ==
    [targets |-> NoneValue, timeframe_days |-> NoneValue,
     datasources |-> NoneValue, playbooks |-> NoneValue]

\* HuntMeta(): every field None, scope = Scope().
DefaultMeta ==
    [name |-> NoneValue, purpose |-> NoneValue, objective |-> NoneValue,
     scope |-> DefaultScope, expected_outcome |-> NoneValue]

\* A HuntMeta that already has a name, an objective and a scope.
HeldMeta ==
    [name |-> <<"n">>, purpose |-> NoneValue, objective |-> <<"o">>,
     scope |-> [DefaultScope EXCEPT !.targets = << <<"t">> >>],
     expected_outcome |-> NoneValue]

\* The HuntMeta objects the extractor returns.
MetaResponse(p) ==
    IF p = 1
    THEN [name |-> <<"N">>, purpose |-> <<"P">>, objective |-> <<"O">>,
          scope |-> [targets |-> << <<"T">> >>, timeframe_days |-> <<"3", "0">>,
                     datasources |-> << <<"D">> >>, playbooks |-> << <<"B">> >>],
          expected_outcome |-> <<"E">>]
    ELSE [name |-> NoneValue, purpose |-> <<"Q">>, objective |-> NoneValue,
          scope |-> DefaultScope, expected_outcome |-> <<"F">>]

\* Able(): four empty strings.
DefaultAble == [actor |-> <<>>, behavior |-> <<>>, location |-> <<>>, evidence |-> <<>>]

\* The Able objects the extractor returns.
AbleResponse(p) ==
    IF p = 1
    THEN [actor |-> <<"a">>, behavior |-> <<"b">>, location |-> <<"l">>, evidence |-> <<"e">>]
    ELSE [actor |-> <<"c">>, behavior |-> <<>>, location |-> <<"m">>, evidence |-> <<>>]

\* A Hypothesis; able is <<>> for None and <<a>> for the Able a.
Hypothesis(id, txt, able) == [Hypothesis_ID |-> id, Hypothesis |-> txt, able |-> able]

\* The Hypotheses objects the extractor returns; the second one uses an id of
\* the first again.
HypothesesResponse(p) ==
    IF p = 1
    THEN <<Hypothesis("HYP-001", <<"1">>, <<>>), Hypothesis("HYP-002", <<"2">>, <<>>)>>
    ELSE <<Hypothesis("HYP-001", <<"3">>, <<AbleResponse(2)>>)>>

HeldHypotheses == <<Hypothesis("HYP-000", <<"0">>, <<>>)>>

\* The four assignments of HuntMeta.generate, with objective among them.
MetaAssignedWithObjective(m, o) ==
    [m EXCEPT !.name = o.name, !.purpose = o.purpose, !.objective = o.objective,
              !.scope = o.scope, !.expected_outcome = o.expected_outcome]

\* HuntMeta.generate: the assignments made from structured_output.
MetaAssigned(m, o) ==
    [m EXCEPT !.name = o.name, !.purpose = o.purpose,
              !.scope = o.scope, !.expected_outcome = o.expected_outcome]

\* HuntMeta.generate on the meta m when the extractor does r.
HuntMeta_generate(m, r) ==
    IF r.kind = "backend_fault"
    THEN [meta |-> m, raised |-> "BackendFault"]
    ELSE IF r.kind = "object"
         THEN [meta |-> MetaAssigned(m, MetaResponse(r.p)), raised |-> "none"]
         ELSE [meta |-> m, raised |-> "none"]

\* Hypotheses.generate that sets the list instead of extending it.
SetHypotheses(cur, new) == new

\* self.hypotheses.extend(structured_output.hypotheses)
ExtendHypotheses(cur, new) == cur \o new

\* Hypotheses.generate on the list l when the extractor does r.
Hypotheses_generate(l, r) ==
    IF r.kind = "backend_fault"
    THEN [hyps |-> l, raised |-> "BackendFault"]
    ELSE IF r.kind = "object"
         THEN [hyps |-> ExtendHypotheses(l, HypothesesResponse(r.p)), raised |-> "none"]
         ELSE [hyps |-> l, raised |-> "none"]

\* Able().generate(hypothesis, llm) when the extractor returns r (no fault).
Able_generate(r) ==
    IF r.kind = "object"
    THEN [DefaultAble EXCEPT !.actor = AbleResponse(r.p).actor,
                             !.behavior = AbleResponse(r.p).behavior,
                             !.location = AbleResponse(r.p).location,
                             !.evidence = AbleResponse(r.p).evidence]
    ELSE DefaultAble

\* generate_able that leaves able None when the extractor gave nothing.
AbleOfIfAny(r) == IF r.kind = "object" THEN <<Able_generate(r)>> ELSE <<>>

\* hypothesis.able = able
AbleOf(r) == <<Able_generate(r)>>

\* The loop of Hypotheses.generate_able from hypothesis i on, rs[i] being what
\* the extractor does for hypothesis i; a fault leaves the loop.
RECURSIVE GenerateAbleFrom(_, _, _)
GenerateAbleFrom(l, i, rs) ==
    IF i > Len(l)
    THEN [hyps |-> l, raised |-> "none", calls |-> Len(l)]
    ELSE IF rs[i].kind = "backend_fault"
         THEN [hyps |-> l, raised |-> "BackendFault", calls |-> i]
         ELSE GenerateAbleFrom([l EXCEPT ![i].able = AbleOf(rs[i])], i + 1, rs)

generate_able(l, rs) == GenerateAbleFrom(l, 1, rs)

\* The replies not yet used: every extractor call uses up one.
Rest == SubSeq(script, Len(hcalls) + 1, Len(script))

Call(schema, about) == [schema |-> schema, about |-> about]
Op(name, exc) == [op |-> name, raised |-> exc, first |-> Len(hcalls) + 1]

InitHunt ==
    /\ \/ meta = DefaultMeta /\ hyps = <<>>
       \/ meta = HeldMeta /\ hyps = HeldHypotheses
    /\ hiocs \in {"None", "IOCs"}
    /\ script \in SeqsUpTo(Replies, MaxReplies)
    /\ hcalls = <<>>
    /\ hops = <<>>
    /\ held = [meta |-> meta, hyps |-> hyps]
    /\ atEntry = [meta |-> meta, hyps |-> hyps]
    /\ AnalyzeIdle
    /\ ReportIdle
    /\ NormIdle
    /\ ObjIdle
    /\ PipeIdle
    /\ CsvIdle

HuntFrame ==
    /\ UNCHANGED <<hiocs, script, held>>
    /\ UNCHANGED analyzeVars
    /\ UNCHANGED reportVars
    /\ UNCHANGED normVars
    /\ UNCHANGED objVars
    /\ UNCHANGED pipeVars
    /\ UNCHANGED csvVars

\* hunt.meta.generate(iocs_csv, llm)
HuntMetaGenerate ==
    /\ Len(hops) < MaxHuntOps
    /\ Rest # <<>>
    /\ LET res == HuntMeta_generate(meta, Rest[1])
       IN  /\ meta' = res.meta
           /\ hops' = Append(hops, Op("HuntMeta.generate", res.raised))
    /\ hcalls' = Append(hcalls, Call("HuntMeta", 0))
    /\ atEntry' = [meta |-> meta, hyps |-> hyps]
    /\ UNCHANGED hyps
    /\ HuntFrame

\* hunt.hypotheses.generate(iocs_csv, llm)
HypothesesGenerate ==
    /\ Len(hops) < MaxHuntOps
    /\ Rest # <<>>
    /\ LET res == Hypotheses_generate(hyps, Rest[1])
       IN  /\ hyps' = res.hyps
           /\ hops' = Append(hops, Op("Hypotheses.generate", res.raised))
    /\ hcalls' = Append(hcalls, Call("Hypotheses", 0))
    /\ atEntry' = [meta |-> meta, hyps |-> hyps]
    /\ UNCHANGED meta
    /\ HuntFrame

\* hunt.hypotheses.generate_able(llm)
HypothesesGenerateAble ==
    /\ Len(hops) < MaxHuntOps
    /\ Len(Rest) >= Len(hyps)
    /\ LET res == generate_able(hyps, Rest)
       IN  /\ hyps' = res.hyps
           /\ hops' = Append(hops, Op("Hypotheses.generate_able", res.raised))
           /\ hcalls' = hcalls \o [i \in 1..res.calls |-> Call("Able", i)]
    /\ atEntry' = [meta |-> meta, hyps |-> hyps]
    /\ UNCHANGED meta
    /\ HuntFrame

\* A hunt method without the check of self.iocs.
IocsMissingUnchecked(io) == FALSE

\* if self.iocs is None: raise ValueError(...)
IocsMissing(io) == io = "None"

\* hunt.generate_meta(llm)
HuntGenerateMeta ==
    /\ Len(hops) < MaxHuntOps
    /\ IF IocsMissing(hiocs)
       THEN /\ hops' = Append(hops, Op("Hunt.generate_meta", "ValueError"))
            /\ UNCHANGED <<meta, hcalls>>
       ELSE /\ Rest # <<>>
            /\ LET res == HuntMeta_generate(meta, Rest[1])
               IN  /\ meta' = res.meta
                   /\ hops' = Append(hops, Op("Hunt.generate_meta", res.raised))
            /\ hcalls' = Append(hcalls, Call("HuntMeta", 0))
    /\ atEntry' = [meta |-> meta, hyps |-> hyps]
    /\ UNCHANGED hyps
    /\ HuntFrame

\* hunt.generate_hypotheses(llm)
HuntGenerateHypotheses ==
    /\ Len(hops) < MaxHuntOps
    /\ IF IocsMissing(hiocs)
       THEN /\ hops' = Append(hops, Op("Hunt.generate_hypotheses", "ValueError"))
            /\ UNCHANGED <<hyps, hcalls>>
       ELSE /\ Rest # <<>>
            /\ LET res == Hypotheses_generate(hyps, Rest[1])
               IN  /\ hyps' = res.hyps
                   /\ hops' = Append(hops, Op("Hunt.generate_hypotheses", res.raised))
            /\ hcalls' = Append(hcalls, Call("Hypotheses", 0))
    /\ atEntry' = [meta |-> meta, hyps |-> hyps]
    /\ UNCHANGED meta
    /\ HuntFrame

\* The methods Hunt.generate calls, hypotheses first.
HuntGenerateOrderReversed == <<"hypotheses", "meta">>

\* Hunt.generate: self.generate_meta(llm); self.generate_hypotheses(llm)
HuntGenerateOrder == <<"meta", "hypotheses">>

\* One of the two methods of Hunt.generate, on the state h, the extractor
\* doing r: the state after it.
HuntGeneratePart(part, h, r) ==
    IF part = "meta"
    THEN LET res == HuntMeta_generate(h.meta, r)
         IN  [h EXCEPT !.meta = res.meta, !.raised = res.raised,
                       !.calls = Append(h.calls, Call("HuntMeta", 0))]
    ELSE LET res == Hypotheses_generate(h.hyps, r)
         IN  [h EXCEPT !.hyps = res.hyps, !.raised = res.raised,
                       !.calls = Append(h.calls, Call("Hypotheses", 0))]

\* hunt.generate(llm)
HuntGenerate ==
    /\ Len(hops) < MaxHuntOps
    /\ IF IocsMissing(hiocs)
       THEN /\ hops' = Append(hops, Op("Hunt.generate", "ValueError"))
            /\ UNCHANGED <<meta, hyps, hcalls>>
       ELSE /\ Rest # <<>>
            /\ LET h0 == [meta |-> meta, hyps |-> hyps, raised |-> "none", calls |-> <<>>]
                   h1 == HuntGeneratePart(HuntGenerateOrder[1], h0, Rest[1])
               IN  IF h1.raised # "none"
                   THEN /\ meta' = h1.meta
                        /\ hyps' = h1.hyps
                        /\ hcalls' = hcalls \o h1.calls
                        /\ hops' = Append(hops, Op("Hunt.generate", h1.raised))
                   ELSE /\ Len(Rest) >= 2
                        /\ LET h2 == HuntGeneratePart(HuntGenerateOrder[2], h1, Rest[2])
                           IN  /\ meta' = h2.meta
                               /\ hyps' = h2.hyps
                               /\ hcalls' = hcalls \o h2.calls
                               /\ hops' = Append(hops, Op("Hunt.generate", h2.raised))
    /\ atEntry' = [meta |-> meta, hyps |-> hyps]
    /\ HuntFrame

NextHunt ==
    \/ HuntMetaGenerate
    \/ HypothesesGenerate
    \/ HypothesesGenerateAble
    \/ HuntGenerateMeta
    \/ HuntGenerateHypotheses
    \/ HuntGenerate

SpecHunt == InitHunt /\ [][NextHunt]_vars

\* hunt: the last operation, and the replies it used.
LastOp == hops[Len(hops)]
UsedByLastOp == SubSeq(script, LastOp.first, Len(hcalls))
CallsOfLastOp == SubSeq(hcalls, LastOp.first, Len(hcalls))

\* C25: HuntMeta.generate sets name, purpose, scope and expected_outcome to the
\* response's values and leaves objective as it was; when the extractor
\* returns None or raises ValidationError the HuntMeta is left as it was and
\* nothing is raised.
C25_MetaGenerateFrame ==
    (hops # <<>> /\ LastOp.op = "HuntMeta.generate") =>
        LET r == UsedByLastOp[1]
        IN  /\ meta.objective = atEntry.meta.objective
            /\ r.kind = "object" =>
                   /\ meta.name = MetaResponse(r.p).name
                   /\ meta.purpose = MetaResponse(r.p).purpose
                   /\ meta.scope = MetaResponse(r.p).scope
                   /\ meta.expected_outcome = MetaResponse(r.p).expected_outcome
                   /\ LastOp.raised = "none"
            /\ r.kind \in {"none", "validation_error"} =>
                   /\ meta = atEntry.meta
                   /\ LastOp.raised = "none"

C25_Witness ==
    /\ hops # <<>>
    /\ LastOp.op = "HuntMeta.generate"
    /\ UsedByLastOp = <<ObjectReply(1)>>
    /\ atEntry.meta = HeldMeta
    /\ meta.name = <<"N">>
    /\ meta.objective = <<"o">>

\* The hypotheses of the responses among the replies rs, one after another.
RECURSIVE ResponsesConcatenated(_)
ResponsesConcatenated(rs) ==
    IF rs = <<>>
    THEN <<>>
    ELSE (IF Head(rs).kind = "object" THEN HypothesesResponse(Head(rs).p) ELSE <<>>)
         \o ResponsesConcatenated(Tail(rs))

\* C30: Hypotheses.generate appends the response's hypotheses to the list in
\* the order returned and leaves the existing ones in place; on None or a
\* ValidationError the list is unchanged and nothing is raised; after k calls
\* the list is what it held followed by the responses, one after another.
C30_GenerateAppends ==
    /\ (hops # <<>> /\ LastOp.op = "Hypotheses.generate") =>
           LET r == UsedByLastOp[1]
           IN  /\ r.kind = "object" => hyps = atEntry.hyps \o HypothesesResponse(r.p)
               /\ r.kind \in {"none", "validation_error"} =>
                      hyps = atEntry.hyps /\ LastOp.raised = "none"
    /\ (\A i \in 1..Len(hops) : hops[i].op = "Hypotheses.generate") =>
           hyps = held.hyps \o ResponsesConcatenated(SubSeq(script, 1, Len(hcalls)))

C30_Witness ==
    /\ Len(hops) = 2
    /\ \A i \in 1..2 : hops[i].op = "Hypotheses.generate"
    /\ SubSeq(script, 1, 2) = <<ObjectReply(2), ObjectReply(1)>>
    /\ held.hyps = HeldHypotheses
    /\ Len(hyps) = 4
    /\ hyps[2].Hypothesis_ID = hyps[3].Hypothesis_ID

\* C26: with hunt.iocs None, Hunt.generate_meta and Hunt.generate_hypotheses
\* raise ValueError without calling the extractor, and hunt.meta and
\* hunt.hypotheses stay as they were.
C26_NoIocsRaisesBeforeAnyCall ==
    (/\ hops # <<>>
     /\ LastOp.op \in {"Hunt.generate_meta", "Hunt.generate_hypotheses"}
     /\ hiocs = "None") =>
        /\ LastOp.raised = "ValueError"
        /\ CallsOfLastOp = <<>>
        /\ meta = atEntry.meta
        /\ hyps = atEntry.hyps

C26_Witness ==
    /\ Len(hops) = 2
    /\ hops[1].op = "HuntMeta.generate"
    /\ hops[2].op = "Hunt.generate_hypotheses"
    /\ hops[2].raised = "ValueError"
    /\ hiocs = "None"
    /\ Len(hcalls) = 1
    /\ Rest # <<>>
    /\ meta # held.meta

\* C22: Hunt.generate calls the extractor for the metadata first and for the
\* hypotheses second; when it returns it has made exactly these two calls,
\* hunt.meta has the values of the first response and hunt.hypotheses has
\* the hypotheses of the second response appended in the order returned.
C22_GenerateMetaThenHypotheses ==
    (hops # <<>> /\ LastOp.op = "Hunt.generate") =>
        LET both == <<Call("HuntMeta", 0), Call("Hypotheses", 0)>>
        IN  /\ Len(CallsOfLastOp) <= 2
            /\ CallsOfLastOp = SubSeq(both, 1, Len(CallsOfLastOp))
            /\ LastOp.raised = "none" =>
                   LET r1 == UsedByLastOp[1]
                       r2 == UsedByLastOp[2]
                   IN  /\ CallsOfLastOp = both
                       /\ meta = (IF r1.kind = "object"
                                  THEN MetaAssigned(atEntry.meta, MetaResponse(r1.p))
                                  ELSE atEntry.meta)
                       /\ hyps = (IF r2.kind = "object"
                                  THEN atEntry.hyps \o HypothesesResponse(r2.p)
                                  ELSE atEntry.hyps)

C22_Witness ==
    /\ Len(hops) = 1
    /\ LastOp.op = "Hunt.generate"
    /\ LastOp.raised = "none"
    /\ UsedByLastOp = <<ObjectReply(2), ObjectReply(1)>>
    /\ meta.purpose = <<"Q">>
    /\ Len(hyps) = Len(atEntry.hyps) + 2

\* C24: Hypotheses.generate_able calls the extractor once per hypothesis, in
\* list order; when it returns every hypothesis has an able that is not None,
\* with the four fields of the response for that hypothesis, or the empty
\* default Able when that response was None.
C24_GenerateAbleEveryHypothesis ==
    (hops # <<>> /\ LastOp.op = "Hypotheses.generate_able") =>
        /\ CallsOfLastOp = [i \in 1..Len(CallsOfLastOp) |-> Call("Able", i)]
        /\ Len(CallsOfLastOp) <= Len(hyps)
        /\ Len(hyps) = Len(atEntry.hyps)
        /\ LastOp.raised = "none" =>
               /\ Len(CallsOfLastOp) = Len(hyps)
               /\ \A i \in 1..Len(hyps) :
                      LET r == UsedByLastOp[i]
                      IN  /\ hyps[i].able # <<>>
                          /\ hyps[i].Hypothesis_ID = atEntry.hyps[i].Hypothesis_ID
                          /\ hyps[i].Hypothesis = atEntry.hyps[i].Hypothesis
                          /\ r.kind = "object" =>
                                 /\ hyps[i].able[1].actor = AbleResponse(r.p).actor
                                 /\ hyps[i].able[1].behavior = AbleResponse(r.p).behavior
                                 /\ hyps[i].able[1].location = AbleResponse(r.p).location
                                 /\ hyps[i].able[1].evidence = AbleResponse(r.p).evidence
                          /\ r.kind = "none" => hyps[i].able = <<DefaultAble>>

C24_Witness ==
    /\ Len(hops) = 2
    /\ hops[1].op = "Hypotheses.generate"
    /\ LastOp.op = "Hypotheses.generate_able"
    /\ LastOp.raised = "none"
    /\ script = <<ObjectReply(1), ObjectReply(1), NoneReply>>
    /\ Len(hyps) = 2
    /\ hyps[1].able = <<AbleResponse(1)>>
    /\ hyps[2].able = <<DefaultAble>>

(***************************************************************************)
(* Report names (utils.py, generate_report_name; ioc.py, write_report).    *)
(***************************************************************************)
DecimalDigits == <<"0", "1", "2", "3", "4", "5", "6", "7", "8", "9">>

\* str(n) of a non-negative int.
RECURSIVE DecNat(_)
DecNat(n) ==
    IF n < 10
    THEN <<DecimalDigits[n + 1]>>
    ELSE DecNat(n \div 10) \o <<DecimalDigits[(n % 10) + 1]>>

\* f"{n}" of an int.
Dec(n) == IF n < 0 THEN <<"-">> \o DecNat(0 - n) ELSE DecNat(n)

\* f"{v}" of a str or None.
Format(v) == IF v = NoneValue THEN <<"N", "o", "n", "e">> ELSE v

\* The first two arguments: a str and a dict, as the function is declared,
\* or an Intel and an LLMInference, as IOCs.write_report passes them.
StrSource(t) == [kind |-> "str", text |-> t]
IntelSource(t, cs, co) ==
    [kind |-> "Intel", text |-> t, chunk_size |-> cs, chunk_overlap |-> co]
DictParams(cs, co, nc, np) ==
    [kind |-> "dict", chunk_size |-> cs, chunk_overlap |-> co,
     num_ctx |-> nc, num_predict |-> np]
LlmParams(nc, np) == [kind |-> "LLMInference", num_ctx |-> nc, num_predict |-> np]

HttpsPrefix == <<"h", "t", "t", "p", "s", ":", "/", "/">>

SourceTexts ==
    { HttpsPrefix \o <<"a", ".", "b">>,
      HttpsPrefix \o <<"a", ".", "b", "/", "c">>,
      <<"a", "b">> }

ChunkSizes == {<<3000, 100>>, <<500, 0>>}
LlmSettings == {<<4096, -1>>, <<1024, 256>>}
ReportTypes == {NoneValue, <<>>, <<"i", "o", "c">>}
Extensions == {NoneValue, <<"c", "s", "v">>}

\* source.replace("https://", "").replace("/", "_").replace(".", "_")
SanitizedSource(t) ==
    Replace(Replace(Replace(t, HttpsPrefix, <<>>), <<"/">>, <<"_">>), <<".">>, <<"_">>)

\* report_type + "_" if report_type else ""
ReportPrefix(report_type) ==
    IF report_type # NoneValue /\ report_type # <<>>
    THEN report_type \o <<"_">>
    ELSE <<>>

\* generate_report_name(source, params, report_type, extension): the name, or
\* the exception of source.replace / params[...] on an object that has none.
generate_report_name(source, ps, report_type, extension) ==
    IF source.kind # "str"
    THEN [name |-> <<>>, raised |-> "AttributeError"]
    ELSE IF ps.kind # "dict"
         THEN [name |-> <<>>, raised |-> "TypeError"]
         ELSE [name |->
                   ReportPrefix(report_type)
                   \o SanitizedSource(source.text)
                   \o <<"_", "c", "s", "-">> \o Dec(ps.chunk_size)
                   \o <<"_", "c", "o", "-">> \o Dec(ps.chunk_overlap)
                   \o <<"_", "n", "c", "-">> \o Dec(ps.num_ctx)
                   \o <<"_", "n", "p", "-">> \o Dec(ps.num_predict)
                   \o <<".">> \o Format(extension),
               raised |-> "none"]

InitReport ==
    /\ \E t \in SourceTexts, c \in ChunkSizes, l \in LlmSettings,
          rt \in ReportTypes, ext \in Extensions :
           \/ rargs = [source |-> StrSource(t),
                       params |-> DictParams(c[1], c[2], l[1], l[2]),
                       report_type |-> rt, extension |-> ext]
           \/ rargs = [source |-> IntelSource(t, c[1], c[2]),
                       params |-> LlmParams(l[1], l[2]),
                       report_type |-> rt, extension |-> ext]
    /\ rresult = <<>>
    /\ rpc = "ready"
    /\ AnalyzeIdle
    /\ HuntIdle
    /\ NormIdle
    /\ ObjIdle
    /\ PipeIdle
    /\ CsvIdle

ReportFrame ==
    /\ UNCHANGED rargs
    /\ UNCHANGED analyzeVars
    /\ UNCHANGED huntVars
    /\ UNCHANGED normVars
    /\ UNCHANGED objVars
    /\ UNCHANGED pipeVars
    /\ UNCHANGED csvVars

\* generate_report_name(source, params, report_type=..., extension=...)
GenerateReportName ==
    /\ rpc = "ready"
    /\ rresult' = generate_report_name(rargs.source, rargs.params,
                                       rargs.report_type, rargs.extension)
    /\ rpc' = "called"
    /\ ReportFrame

\* IOCs.write_report(intel_obj, llm, output_dir): the name is asked for with
\* "ioc" and "csv" before anything is written.
IocsWriteReport ==
    /\ rpc = "ready"
    /\ rargs.source.kind = "Intel"
    /\ rresult' = generate_report_name(rargs.source, rargs.params,
                                       <<"i", "o", "c">>, <<"c", "s", "v">>)
    /\ rpc' = "write_report"
    /\ ReportFrame

NextReport == GenerateReportName \/ IocsWriteReport

SpecReport == InitReport /\ [][NextReport]_vars

\* The four numbers of the name, wherever the arguments keep them.
ReportNumbers(a) ==
    IF a.source.kind = "Intel"
    THEN <<a.source.chunk_size, a.source.chunk_overlap,
           a.params.num_ctx, a.params.num_predict>>
    ELSE <<a.params.chunk_size, a.params.chunk_overlap,
           a.params.num_ctx, a.params.num_predict>>

\* The name without prefix and suffix: sanitized source and the four numbers.
ReportStem(a) ==
    SanitizedSource(a.source.text)
    \o <<"_", "c", "s", "-">> \o Dec(ReportNumbers(a)[1])
    \o <<"_", "c", "o", "-">> \o Dec(ReportNumbers(a)[2])
    \o <<"_", "n", "c", "-">> \o Dec(ReportNumbers(a)[3])
    \o <<"_", "n", "p", "-">> \o Dec(ReportNumbers(a)[4])

\* C23: generate_report_name(intel, llm, report_type, extension) returns the
\* sanitized source followed by _cs-, _co-, _nc- and _np- with their numbers,
\* with "<report_type>_" in front only when a report type is given and
\* ".<extension>" at the end only when an extension is given.
C23_ReportNameFormat ==
    rpc = "called" =>
        /\ rresult.raised = "none"
        /\ rresult.name =
               ReportPrefix(rargs.report_type)
               \o ReportStem(rargs)
               \o (IF rargs.extension # NoneValue
                   THEN <<".">> \o rargs.extension
                   ELSE <<>>)

====
